---------------------------- MODULE Spec2Model ----------------------------
(***************************************************************************)
(* The shift assignment engine of algorithms/scheduler_cpsat_phase.py:     *)
(* Scheduler.run = Phase 1 (CP-SAT model, or the greedy fallback when the  *)
(* solver returns neither OPTIMAL nor FEASIBLE), then the three Phase-2    *)
(* variations (Minimize-providers, Balanced, Conservative), their          *)
(* satisfaction scores and the ranking of _print_comparison.               *)
(*                                                                         *)
(* The scorer's floats are exact integers here: its weights are multiples  *)
(* of 0.5, so weighted excesses are counted in halves, and a quotient is   *)
(* kept as the pair <<numerator, denominator>>.                            *)
(*                                                                         *)
(* Volumes are integers in thousandths of a patient (8.0 is 8000), so that *)
(* the exact model's int(volume * 100) is a real truncation (v \div 10)    *)
(* while the greedy procedures compare the untruncated values.             *)
(*                                                                         *)
(* The external solver is modelled by what its contract allows: with       *)
(* status FEASIBLE any assignment of the boolean variables that satisfies  *)
(* every constraint added to the model, with status OPTIMAL any such       *)
(* assignment that maximises the objective, with any other status nothing. *)
(* Which status the solver reaches within its time budget is an input of   *)
(* the run (solver_status), drawn in Init.                                 *)
(***************************************************************************)
EXTENDS Integers, Sequences, FiniteSets, TLC

VARIABLES
    coverage,        \* self.coverage: facility -> shift -> set of days
    availability,    \* provider -> day -> set of shift types
    contracts,       \* provider -> contract record (may miss a provider)
    credentialing,   \* provider -> set of facilities
    volumes,         \* facility -> shift -> volume (thousandths)
    weekend_days,    \* get_weekend_days()
    solver_status,   \* what solver.Solve(model) returns in this run
    slots,           \* run: the slot list, built before Phase 1
    pc,              \* position of Scheduler.run
    gi,              \* run_phase1_greedy: index of the next slot
    sol_p1, shifts_p1, vol_p1,      \* Phase-1 result (greedy: its locals)
    uncovered,       \* run: slots not in sol_p1, in slot order
    mi,              \* phase2_minimize: index of the next uncovered slot
    sol_min, shifts_min, vol_min,
    bi,              \* phase2_balanced: index of the next uncovered slot
    sol_bal, shifts_bal, vol_bal,
    sol_cons, shifts_cons, vol_cons,
    score_min, score_bal, score_cons,   \* run: the three score records
    ranked,          \* _print_comparison: the variations' names, ranked
    output_dir,      \* flask_app: the shared "output" directory, name -> file
    requests,        \* flask_app: request -> position and locals of its handler
    site_coverage,          \* challange_2: facility -> shift -> set of days
    provider_availability,  \* challange_2: provider -> day -> set of shifts
    provider_credentials,   \* challange_2: provider -> set of facilities
    provider_contracts,     \* challange_2: provider -> contract record
    providers_to_schedule,  \* challange_2: provider -> tracking record
    facility_slots,         \* challange_2: slots, (facility, day, shift) -> record
    c2_pc,                  \* challange_2: position
    key_i,                  \* challange_2: index into sorted(daily_shift_needs)
    unfilled_pm,            \* challange_2: the unfilled PM slots of Phase 2
    pm_i                    \* challange_2: index into unfilled_pm[:100]

inputs == <<coverage, availability, contracts, credentialing, volumes,
            weekend_days, solver_status, slots>>
p1vars == <<gi, sol_p1, shifts_p1, vol_p1, uncovered>>
minvars == <<mi, sol_min, shifts_min, vol_min>>
balvars == <<bi, sol_bal, shifts_bal, vol_bal>>
consvars == <<sol_cons, shifts_cons, vol_cons>>
scorevars == <<score_min, score_bal, score_cons, ranked>>
schedvars == <<inputs, pc, p1vars, minvars, balvars, consvars, scorevars>>
webvars == <<output_dir, requests>>
c2inputs == <<site_coverage, provider_availability, provider_credentials,
              provider_contracts>>
c2vars == <<c2inputs, providers_to_schedule, facility_slots, c2_pc, key_i,
            unfilled_pm, pm_i>>
flaskvars == <<webvars, c2vars>>
vars == <<schedvars, flaskvars>>

-----------------------------------------------------------------------------
(* Calendar and catalogs *)

LastDay == 31
days == 1..LastDay
shifts == <<"MD1", "MD2", "PM">>
ShiftSet == {"MD1", "MD2", "PM"}

\* Names in sorted() order: the code sorts facility and provider names.
FacilityOrder == <<"NHMC", "NMMC">>
ProviderOrder == <<"p1", "p2">>

Unbounded == 999
AbsoluteCeiling == 20

volume_limits ==
    [MD1 |-> <<6000, 14000>>, MD2 |-> <<8000, 16000>>, PM |-> <<5000, 10000>>]

shift_hours == [MD1 |-> 8, MD2 |-> 8, PM |-> 12]
group1 == {"NHMC", "NMHMC"}
group2 == {"NMMC", "NBAMC"}

EmptyMap == [k \in {} |-> 0]

Range(seq) == {seq[i] : i \in 1..Len(seq)}

facilities == SelectSeq(FacilityOrder, LAMBDA f : f \in DOMAIN coverage)
providers == SelectSeq(ProviderOrder, LAMBDA p : p \in DOMAIN availability)

\* self.coverage.get(f, {}).get(s, [])
CoverageDays(f, s) ==
    IF f \in DOMAIN coverage /\ s \in DOMAIN coverage[f] THEN coverage[f][s] ELSE {}

\* availability.get(p, {}).get(d, [])
Available(p, d) ==
    IF p \in DOMAIN availability /\ d \in DOMAIN availability[p]
    THEN availability[p][d] ELSE {}

\* credentialing.get(p, set())
Credentialed(p) == IF p \in DOMAIN credentialing THEN credentialing[p] ELSE {}

\* volumes.get(f, {}).get(s, 0.0)
Volume(f, s) ==
    IF f \in DOMAIN volumes /\ s \in DOMAIN volumes[f] THEN volumes[f][s] ELSE 0

\* contracts.get(p, {}).get(field, 999)
Quota(p, field) ==
    IF p \in DOMAIN contracts /\ field \in DOMAIN contracts[p]
    THEN contracts[p][field] ELSE Unbounded

\* All (facility, shift, day) triples in the nesting order of run's loops.
AllTriples ==
    [i \in 1..(Len(FacilityOrder) * 3 * LastDay) |->
        <<FacilityOrder[((i - 1) \div (3 * LastDay)) + 1],
          shifts[(((i - 1) \div LastDay) % 3) + 1],
          ((i - 1) % LastDay) + 1>>]

\* run: slots = [(f, s, d) for f, s, d in order if d in coverage[f][s]]
BuildSlots ==
    SelectSeq(AllTriples,
              LAMBDA t : t[1] \in DOMAIN coverage /\ t[3] \in CoverageDays(t[1], t[2]))

-----------------------------------------------------------------------------
(* Phase 1: the CP-SAT model *)

\* The keys of x: one boolean per credentialed, covered, available combination.
XKeys ==
    {k \in Range(providers) \X Range(facilities) \X ShiftSet \X days :
        /\ k[2] \in Credentialed(k[1])
        /\ k[4] \in CoverageDays(k[2], k[3])
        /\ k[3] \in Available(k[1], k[4])}

\* shift_working[(p, s, d)] is forced equal to "some x[(p, f, s, d)] is true".
WorkingOf(X, p) == {<<k[3], k[4]>> : k \in {j \in X : j[1] = p}}

\* slot_filled[(f, s, d)] is forced equal to "some x[(p, f, s, d)] is true".
FilledOf(X) == {<<k[2], k[3], k[4]>> : k \in X}

RECURSIVE SumCenti(_, _)
SumCenti(F, s) ==
    IF F = {} THEN 0
    ELSE LET f == CHOOSE g \in F : TRUE
         IN (Volume(f, s) \div 10) + SumCenti(F \ {f}, s)

Min2(a, b) == IF a < b THEN a ELSE b

CountIn(W, s, lo, hi) == Cardinality({d \in lo..hi : <<s, d>> \in W})

\* Mutant of WeekendLimit: the weekend quota compared off by one.
WeekendLimit_OffByOne(W, p) ==
    Cardinality({w \in W : w[2] \in weekend_days}) <= Quota(p, "weekend_shifts") + 1

\* P1.4: weekend shift count
WeekendLimit(W, p) ==
    Cardinality({w \in W : w[2] \in weekend_days}) <= Quota(p, "weekend_shifts")

\* P1.5: PM shift count
PMLimit(W, p) ==
    Cardinality({w \in W : w[1] = "PM"}) <= Quota(p, "pm_shifts")

\* P1.6: volume band of every working shift, in int(v * 100) units
VolumeRestriction(X, W, p) ==
    \A w \in W :
        LET F == {f \in Range(facilities) : <<p, f, w[1], w[2]>> \in X}
            v == SumCenti(F, w[1])
        IN /\ v >= volume_limits[w[1]][1] \div 10
           /\ v <= volume_limits[w[1]][2] \div 10

\* Mutant of ConsecutiveLimits: every range of window starts ends two days
\* early, so the last whole window of the month is not constrained.
ConsecutiveLimits_ShortRanges(W) ==
    /\ \A start \in 1..26 : CountIn(W, "MD1", start, Min2(start + 5, 32) - 1) <= 4
    /\ \A start \in 1..23 : CountIn(W, "MD2", start, Min2(start + 8, 32) - 1) <= 7
    /\ \A start \in 1..27 : CountIn(W, "PM", start, Min2(start + 4, 32) - 1) <= 3
    /\ \A start \in 1..26 :
          CountIn(W, "MD1", start, Min2(start + 5, 32) - 1)
            + CountIn(W, "PM", start, Min2(start + 5, 32) - 1) <= 4

\* P1.7: sliding windows, with the start ranges of the code
ConsecutiveLimits(W) ==
    /\ \A start \in 1..28 : CountIn(W, "MD1", start, Min2(start + 5, 32) - 1) <= 4
    /\ \A start \in 1..25 : CountIn(W, "MD2", start, Min2(start + 8, 32) - 1) <= 7
    /\ \A start \in 1..29 : CountIn(W, "PM", start, Min2(start + 4, 32) - 1) <= 3
    /\ \A start \in 1..28 :
          CountIn(W, "MD1", start, Min2(start + 5, 32) - 1)
            + CountIn(W, "PM", start, Min2(start + 5, 32) - 1) <= 4

\* P1.8: at most 12 hours a day
DailyHours(W) ==
    \A d \in {w[2] : w \in W} :
        (IF <<"MD1", d>> \in W THEN shift_hours["MD1"] ELSE 0)
          + (IF <<"MD2", d>> \in W THEN shift_hours["MD2"] ELSE 0)
          + (IF <<"PM", d>> \in W THEN shift_hours["PM"] ELSE 0) <= 12

\* P1.9: MD2 at group 1 and MD2 at group 2 exclude each other on a day
SiteGrouping(X, p) ==
    \A d \in {k[4] : k \in {j \in X : j[1] = p /\ j[3] = "MD2"}} :
        ~ /\ \E f \in group1 : <<p, f, "MD2", d>> \in X
          /\ \E f \in group2 : <<p, f, "MD2", d>> \in X

\* P1.3 (contracted total shift count) is commented out in the model that runs.
ContractShiftCount(W, p) == TRUE

\* Every constraint model.Add()ed by the run_phase1_cpsat that is in effect.
Feasible(X) ==
    \A p \in Range(providers) :
        LET W == WorkingOf(X, p)
        IN /\ ContractShiftCount(W, p)
           /\ DailyHours(W)
           /\ WeekendLimit(W, p)
           /\ PMLimit(W, p)
           /\ VolumeRestriction(X, W, p)
           /\ SiteGrouping(X, p)
           /\ ConsecutiveLimits(W)

\* model.Maximize(sum(slot_filled.values()))
Objective(X) == Cardinality(FilledOf(X))

\* The feasible assignments that fill exactly the slots of T: one provider
\* variable per slot of T, and any further variables of those slots.
FeasibleFilling(T) ==
    LET KeysOn == {k \in XKeys : <<k[2], k[3], k[4]>> \in T}
        Picks == {g \in [T -> Range(providers)] :
                    \A t \in T : <<g[t], t[1], t[2], t[3]>> \in XKeys}
        Img(g) == {<<g[t], t[1], t[2], t[3]>> : t \in T}
    IN {X \in UNION {{Img(g) \cup E : E \in SUBSET (KeysOn \ Img(g))} : g \in Picks} :
          Feasible(X)}

RECURSIVE BestFrom(_)
BestFrom(n) ==
    IF n = 0 THEN 0
    ELSE IF \E X \in SUBSET XKeys : Objective(X) >= n /\ Feasible(X)
         THEN n
         ELSE BestFrom(n - 1)

\* The assignments with the largest objective among the feasible ones.
OptimalSolutions ==
    LET fillable == FilledOf(XKeys)
        full == FeasibleFilling(fillable)
    IN IF full # {} THEN full
       ELSE LET best == BestFrom(Cardinality(fillable) - 1)
            IN {X \in SUBSET XKeys : Objective(X) = best /\ Feasible(X)}

\* The last provider, in the insertion order of x, whose variable is true.
LastTrue(X, t) ==
    LET I == {i \in 1..Len(providers) : <<providers[i], t[1], t[2], t[3]>> \in X}
    IN providers[CHOOSE i \in I : \A j \in I : j <= i]

RECURSIVE SumVolume(_, _)
SumVolume(F, s) ==
    IF F = {} THEN 0
    ELSE LET f == CHOOSE g \in F : TRUE
         IN Volume(f, s) + SumVolume(F \ {f}, s)

\* Extract solution: the three dictionaries built from the true variables.
ExtractSolution(X) == [t \in FilledOf(X) |-> LastTrue(X, t)]

ExtractShifts(X) == [p \in {k[1] : k \in X} |-> WorkingOf(X, p)]

ExtractVolume(X) ==
    [v \in {<<k[1], k[3], k[4]>> : k \in X} |->
        SumVolume({f \in Range(facilities) : <<v[1], f, v[2], v[3]>> \in X}, v[2])]

\* Mutant of Uncovered: Phase 2 is handed every slot of the catalog.
Uncovered_AllSlots(sol) == slots

\* uncovered = [(f, s, d) for f, s, d in slots if (f, s, d) not in sol_p1]
Uncovered(sol) == SelectSeq(slots, LAMBDA t : t \notin DOMAIN sol)


-----------------------------------------------------------------------------
(* Greedy eligibility and the tie-break scores *)

ShiftsOf(provider_shifts, p) ==
    IF p \in DOMAIN provider_shifts THEN provider_shifts[p] ELSE {}

VolumeAt(provider_daily_volume, key) ==
    IF key \in DOMAIN provider_daily_volume THEN provider_daily_volume[key] ELSE 0

\* Mutant of is_eligible_greedy: the availability check is missing.
is_eligible_greedy_NoAvailability(provider, facility, shift, day, provider_shifts, provider_daily_volume, check_soft_limits) ==
    IF facility \notin Credentialed(provider) THEN FALSE
    ELSE IF VolumeAt(provider_daily_volume, <<provider, shift, day>>)
              + Volume(facility, shift) > volume_limits[shift][2] THEN FALSE
    ELSE IF /\ provider \in DOMAIN provider_shifts
            /\ Cardinality(provider_shifts[provider]) >= AbsoluteCeiling THEN FALSE
    ELSE TRUE

\* Mutant of is_eligible_greedy: the quotas are checked whatever
\* check_soft_limits says.
is_eligible_greedy_QuotasAlways(provider, facility, shift, day, provider_shifts, provider_daily_volume, check_soft_limits) ==
    IF facility \notin Credentialed(provider) THEN FALSE
    ELSE IF shift \notin Available(provider, day) THEN FALSE
    ELSE IF VolumeAt(provider_daily_volume, <<provider, shift, day>>)
              + Volume(facility, shift) > volume_limits[shift][2] THEN FALSE
    ELSE IF /\ provider \in DOMAIN provider_shifts
            /\ Cardinality(provider_shifts[provider]) >= AbsoluteCeiling THEN FALSE
    ELSE IF provider \notin DOMAIN provider_shifts THEN TRUE
    ELSE IF Cardinality(provider_shifts[provider]) >= Quota(provider, "total_shifts")
         THEN FALSE
    ELSE IF /\ day \in weekend_days
            /\ Cardinality({w \in provider_shifts[provider] : w[2] \in weekend_days})
                 >= Quota(provider, "weekend_shifts") THEN FALSE
    ELSE IF /\ shift = "PM"
            /\ Cardinality({w \in provider_shifts[provider] : w[1] = "PM"})
                 >= Quota(provider, "pm_shifts") THEN FALSE
    ELSE TRUE

is_eligible_greedy(provider, facility, shift, day, provider_shifts, provider_daily_volume, check_soft_limits) ==
    IF facility \notin Credentialed(provider) THEN FALSE
    ELSE IF shift \notin Available(provider, day) THEN FALSE
    ELSE IF VolumeAt(provider_daily_volume, <<provider, shift, day>>)
              + Volume(facility, shift) > volume_limits[shift][2] THEN FALSE
    ELSE IF /\ provider \in DOMAIN provider_shifts
            /\ Cardinality(provider_shifts[provider]) >= AbsoluteCeiling THEN FALSE
    ELSE IF ~check_soft_limits THEN TRUE
    ELSE IF provider \notin DOMAIN provider_shifts THEN TRUE
    ELSE IF Cardinality(provider_shifts[provider]) >= Quota(provider, "total_shifts")
         THEN FALSE
    ELSE IF /\ day \in weekend_days
            /\ Cardinality({w \in provider_shifts[provider] : w[2] \in weekend_days})
                 >= Quota(provider, "weekend_shifts") THEN FALSE
    ELSE IF /\ shift = "PM"
            /\ Cardinality({w \in provider_shifts[provider] : w[1] = "PM"})
                 >= Quota(provider, "pm_shifts") THEN FALSE
    ELSE TRUE

\* Mutant of score_greedy: no bonus for the provider already on the shift.
score_greedy_NoContinuity(provider, shift, day, provider_shifts) == 0

\* run_phase1_greedy: +1000 for a provider already working (s, d)
score_greedy(provider, shift, day, provider_shifts) ==
    IF <<shift, day>> \in ShiftsOf(provider_shifts, provider) THEN 1000 ELSE 0

\* Mutant of score_minimize_providers: the bonuses for a preference match and
\* for the FT contract type are exchanged.
score_minimize_providers_FTFirst(provider, shift, day, provider_shifts) ==
    (IF ShiftsOf(provider_shifts, provider) # {}
     THEN 10000 + (IF <<shift, day>> \in provider_shifts[provider] THEN 5000 ELSE 0)
     ELSE 0)
    + (IF /\ provider \in DOMAIN contracts
          /\ shift \in contracts[provider]["preferred_shifts"] THEN 50 ELSE 0)
    + (IF /\ provider \in DOMAIN contracts
          /\ contracts[provider]["contract_type"] = "FT" THEN 100 ELSE 0)

score_minimize_providers(provider, shift, day, provider_shifts) ==
    (IF ShiftsOf(provider_shifts, provider) # {}
     THEN 10000 + (IF <<shift, day>> \in provider_shifts[provider] THEN 5000 ELSE 0)
     ELSE 0)
    + (IF /\ provider \in DOMAIN contracts
          /\ shift \in contracts[provider]["preferred_shifts"] THEN 100 ELSE 0)
    + (IF /\ provider \in DOMAIN contracts
          /\ contracts[provider]["contract_type"] = "FT" THEN 50 ELSE 0)

\* Mutant of score_balanced_providers: continuity is worth three shifts of
\* load instead of two.
score_balanced_providers_Bonus300(provider, shift, day, provider_shifts) ==
    (10000 - Cardinality(ShiftsOf(provider_shifts, provider)) * 100)
    + (IF <<shift, day>> \in ShiftsOf(provider_shifts, provider) THEN 300 ELSE 0)

score_balanced_providers(provider, shift, day, provider_shifts) ==
    (10000 - Cardinality(ShiftsOf(provider_shifts, provider)) * 100)
    + (IF <<shift, day>> \in ShiftsOf(provider_shifts, provider) THEN 200 ELSE 0)

\* eligible = [p for p in providers if is_eligible_greedy(...)]
EligibleSeq(t, provider_shifts, provider_daily_volume, check_soft_limits) ==
    SelectSeq(providers,
              LAMBDA p : is_eligible_greedy(p, t[1], t[2], t[3], provider_shifts,
                                            provider_daily_volume, check_soft_limits))

\* scored.sort(key=score, reverse=True); chosen = scored[0][0]: the sort is
\* stable, so the first provider of the list with the highest score.
FirstBest(eligible, score) ==
    eligible[CHOOSE i \in 1..Len(eligible) :
                \A j \in 1..Len(eligible) :
                    \/ score[eligible[j]] < score[eligible[i]]
                    \/ score[eligible[j]] = score[eligible[i]] /\ i <= j]

\* provider_shifts[chosen].add((s, d)), creating the set when missing
AddShift(provider_shifts, chosen, s, d) ==
    IF chosen \in DOMAIN provider_shifts
    THEN [provider_shifts EXCEPT ![chosen] = @ \cup {<<s, d>>}]
    ELSE provider_shifts @@ (chosen :> {<<s, d>>})

\* provider_daily_volume[key] = provider_daily_volume.get(key, 0.0) + volume
AddVolume(provider_daily_volume, chosen, f, s, d) ==
    LET key == <<chosen, s, d>>
        v == VolumeAt(provider_daily_volume, key) + Volume(f, s)
    IN IF key \in DOMAIN provider_daily_volume
       THEN [provider_daily_volume EXCEPT ![key] = v]
       ELSE provider_daily_volume @@ (key :> v)

\* Mutant of SetSlot: the map is replaced by the single new entry.
SetSlot_Replace(solution, t, chosen) == (t :> chosen)

\* solution[(f, s, d)] = chosen
SetSlot(solution, t, chosen) ==
    IF t \in DOMAIN solution THEN [solution EXCEPT ![t] = chosen]
    ELSE solution @@ (t :> chosen)


-----------------------------------------------------------------------------
(* Satisfaction scoring and ranking *)

\* The weights 1.0, 1.5 and 2.0 in halves, so that every weighted excess is an
\* integer: total_weighted_excess and max_possible_excess count halves.
weight_M == 2
weight_P == 3
weight_W == 4

Max2(a, b) == IF a > b THEN a ELSE b

\* Mutant of Excess: the difference is not floored at 0.
Excess_NoFloor(count, contract) ==
    IF contract < Unbounded THEN count - contract ELSE 0

\* max(0, count - contract) if contract < 999 else 0
Excess(count, contract) ==
    IF contract < Unbounded THEN Max2(0, count - contract) ELSE 0

\* One iteration of "for provider in providers" for a provider with an entry
\* in provider_shifts.
ProviderExcess(provider_shifts, provider) ==
    LET shifts_worked == provider_shifts[provider]
        pm_count == Cardinality({w \in shifts_worked : w[1] = "PM"})
        weekend_count == Cardinality({w \in shifts_worked : w[2] \in weekend_days})
        M_i == Excess(Cardinality(shifts_worked), Quota(provider, "total_shifts"))
        P_i == Excess(pm_count, Quota(provider, "pm_shifts"))
        W_i == Excess(weekend_count, Quota(provider, "weekend_shifts"))
    IN [M |-> M_i, P |-> P_i, W |-> W_i,
        weighted_excess |-> M_i * weight_M + P_i * weight_P + W_i * weight_W]

\* The accumulators after the first n providers.
RECURSIVE ScoreLoop(_, _)
ScoreLoop(provider_shifts, n) ==
    IF n = 0
    THEN [total_weighted_excess |-> 0, total_M |-> 0, total_P |-> 0,
          total_W |-> 0, providers_affected |-> 0]
    ELSE LET acc == ScoreLoop(provider_shifts, n - 1)
             provider == providers[n]
         IN IF provider \notin DOMAIN provider_shifts THEN acc
            ELSE LET e == ProviderExcess(provider_shifts, provider)
                 IN [total_weighted_excess |->
                         acc.total_weighted_excess + e.weighted_excess,
                     total_M |-> acc.total_M + e.M,
                     total_P |-> acc.total_P + e.P,
                     total_W |-> acc.total_W + e.W,
                     providers_affected |->
                         acc.providers_affected
                           + (IF e.weighted_excess > 0 THEN 1 ELSE 0)]

\* Mutant of calculate_satisfaction_score: a provider's shifts are counted once
\* per assigned slot, not once per (shift, day).
calculate_satisfaction_score_PerSlot(solution, provider_shifts, total_slots) ==
    LET per_slot == [p \in DOMAIN provider_shifts |->
                        {<<t[2], t[3], t[1]>> :
                            t \in {u \in DOMAIN solution : solution[u] = p}}]
        acc == ScoreLoop(per_slot, Len(providers))
        max_possible_excess == Len(providers) * 20 * weight_W
        covered_slots == Cardinality(DOMAIN solution)
    IN [satisfaction_score |->
            IF max_possible_excess > 0
            THEN <<acc.total_weighted_excess, max_possible_excess>>
            ELSE <<0, 1>>,
        total_weighted_excess |-> acc.total_weighted_excess,
        total_M |-> acc.total_M,
        total_P |-> acc.total_P,
        total_W |-> acc.total_W,
        providers_affected |-> acc.providers_affected,
        covered_slots |-> covered_slots,
        uncovered_slots |-> total_slots - covered_slots,
        coverage_rate |->
            IF total_slots > 0 THEN <<covered_slots, total_slots>> ELSE <<0, 1>>]

\* The score record. A quotient a / b is the pair <<a, b>>; the literal 0 of
\* the guarded divisions is <<0, 1>>.
calculate_satisfaction_score(solution, provider_shifts, total_slots) ==
    LET acc == ScoreLoop(provider_shifts, Len(providers))
        max_possible_excess == Len(providers) * 20 * weight_W
        covered_slots == Cardinality(DOMAIN solution)
    IN [satisfaction_score |->
            IF max_possible_excess > 0
            THEN <<acc.total_weighted_excess, max_possible_excess>>
            ELSE <<0, 1>>,
        total_weighted_excess |-> acc.total_weighted_excess,
        total_M |-> acc.total_M,
        total_P |-> acc.total_P,
        total_W |-> acc.total_W,
        providers_affected |-> acc.providers_affected,
        covered_slots |-> covered_slots,
        uncovered_slots |-> total_slots - covered_slots,
        coverage_rate |->
            IF total_slots > 0 THEN <<covered_slots, total_slots>> ELSE <<0, 1>>]

\* a < b for two quotients with positive denominators
QLess(a, b) == a[1] * b[2] < b[1] * a[2]

\* _print_comparison: the variations in the order the list is built.
variations == <<"Minimize", "Balanced", "Conservative">>

\* Mutant of sorted: descending (reverse=True).
sorted_Descending(seq, key) ==
    LET n == Len(seq)
        before(i) == {j \in 1..n :
                        \/ QLess(key[seq[i]], key[seq[j]])
                        \/ j < i /\ ~QLess(key[seq[j]], key[seq[i]])}
    IN [r \in 1..n |-> seq[CHOOSE i \in 1..n : Cardinality(before(i)) = r - 1]]

\* sorted(seq, key=...): ascending and stable, so the element at index i ends
\* after every element with a smaller key and after the elements with an equal
\* key that stood before it.
sorted(seq, key) ==
    LET n == Len(seq)
        before(i) == {j \in 1..n :
                        \/ QLess(key[seq[j]], key[seq[i]])
                        \/ j < i /\ ~QLess(key[seq[i]], key[seq[j]])}
    IN [r \in 1..n |-> seq[CHOOSE i \in 1..n : Cardinality(before(i)) = r - 1]]

\* Mutant of CoveragePrinted: the ratio is taken over the filled count.
CoveragePrinted_OverFilled(filled, total) == filled # 0

\* The f-strings that print filled / len(slots): ZeroDivisionError when the
\* slot list is empty.
CoveragePrinted(filled, total) == total # 0

-----------------------------------------------------------------------------
(* Input catalogs *)

MaxSlots == 2
MaxCoverDay == 2

AllDayAvailable == [d \in days |-> ShiftSet]

\* "PM only" on day 1, no entry otherwise restricted
PmOnlyDay1 == [d \in days |-> IF d = 1 THEN {"PM"} ELSE ShiftSet]

\* A month whose day 1 is a Sunday.
Weekends == {d \in days : d % 7 \in {0, 1}}

Contract(type, total, weekend, pm, preferred) ==
    [contract_type |-> type, total_shifts |-> total, weekend_shifts |-> weekend,
     pm_shifts |-> pm, preferred_shifts |-> preferred]

CoverageOf(S) ==
    [f \in Range(FacilityOrder) |->
        [s \in ShiftSet |-> {t[3] : t \in {u \in S : u[1] = f /\ u[2] = s}}]]

SameVolume(v) == [s \in ShiftSet |-> v]

VolumeChoices ==
    {[NHMC |-> SameVolume(8000), NMMC |-> SameVolume(8000)],
     [NHMC |-> SameVolume(3000), NMMC |-> SameVolume(3000)],
     [NHMC |-> SameVolume(8004), NMMC |-> SameVolume(8004)]}

QuotaChoices == {<<Unbounded, Unbounded, Unbounded>>, <<1, 0, 0>>, <<1, 1, 1>>}

SecondProviderChoices == {{}, {"NHMC"}, {"NHMC", "NMMC"}}

SlotChoices ==
    {S \in SUBSET (Range(FacilityOrder) \X ShiftSet \X (1..MaxCoverDay)) :
        Cardinality(S) >= 1 /\ Cardinality(S) <= MaxSlots}

\* challange_2 has not been called.
Challange2Idle ==
    /\ site_coverage = EmptyMap /\ provider_availability = EmptyMap
    /\ provider_credentials = EmptyMap /\ provider_contracts = EmptyMap
    /\ providers_to_schedule = EmptyMap /\ facility_slots = EmptyMap
    /\ c2_pc = "idle" /\ key_i = 1 /\ unfilled_pm = <<>> /\ pm_i = 1

\* The Flask application serves no request and its output directory is empty.
FlaskIdle ==
    /\ output_dir = EmptyMap
    /\ requests = EmptyMap

InitState ==
    /\ Challange2Idle /\ FlaskIdle
    /\ pc = "phase1"
    /\ gi = 1 /\ mi = 1 /\ bi = 1
    /\ sol_p1 = EmptyMap /\ shifts_p1 = EmptyMap /\ vol_p1 = EmptyMap
    /\ uncovered = <<>>
    /\ sol_min = EmptyMap /\ shifts_min = EmptyMap /\ vol_min = EmptyMap
    /\ sol_bal = EmptyMap /\ shifts_bal = EmptyMap /\ vol_bal = EmptyMap
    /\ sol_cons = EmptyMap /\ shifts_cons = EmptyMap /\ vol_cons = EmptyMap
    /\ score_min = EmptyMap /\ score_bal = EmptyMap /\ score_cons = EmptyMap
    /\ ranked = <<>>

\* Two facilities of the two MD2 site groups, one or two providers.
GeneralCatalog ==
    \E S \in SlotChoices, V \in VolumeChoices, q \in QuotaChoices,
       c2 \in SecondProviderChoices :
        /\ coverage = CoverageOf(S)
        /\ volumes = V
        /\ weekend_days = Weekends
        /\ IF c2 = {}
           THEN /\ availability = [p \in {"p1"} |-> AllDayAvailable]
                /\ credentialing = [p \in {"p1"} |-> {"NHMC", "NMMC"}]
           ELSE /\ availability =
                      [p \in {"p1", "p2"} |->
                          IF p = "p1" THEN AllDayAvailable ELSE PmOnlyDay1]
                /\ credentialing =
                      [p \in {"p1", "p2"} |-> IF p = "p1" THEN {"NHMC", "NMMC"} ELSE c2]
        /\ contracts = [p \in {"p1"} |-> Contract("IC", q[1], q[2], q[3], {})]

\* Scenario A: one facility, MD1 on days 1-5, volume 10, one provider, total 5.
ScenarioA ==
    /\ coverage = [f \in {"NHMC"} |->
                      [s \in ShiftSet |-> IF s = "MD1" THEN 1..5 ELSE {}]]
    /\ volumes = [f \in {"NHMC"} |-> SameVolume(10000)]
    /\ weekend_days = Weekends
    /\ availability = [p \in {"p1"} |-> AllDayAvailable]
    /\ credentialing = [p \in {"p1"} |-> {"NHMC"}]
    /\ contracts = [p \in {"p1"} |-> Contract("IC", 5, Unbounded, Unbounded, {})]

\* A long month: one facility needing MD2 on 21 days (three runs of 7 days
\* with a day off between them), volume 10, one provider.
LongMonth ==
    \E total \in {Unbounded, 10, 21} :
        /\ coverage = [f \in {"NHMC"} |->
                          [s \in ShiftSet |->
                              IF s = "MD2" THEN (1..23) \ {8, 16} ELSE {}]]
        /\ volumes = [f \in {"NHMC"} |-> SameVolume(10000)]
        /\ weekend_days = Weekends
        /\ availability = [p \in {"p1"} |-> AllDayAvailable]
        /\ credentialing = [p \in {"p1"} |-> {"NHMC"}]
        /\ contracts =
              [p \in {"p1"} |-> Contract("IC", total, Unbounded, Unbounded, {})]

\* One facility needing PM on every weekend day of the month, volume 8, one
\* provider with every quota 0, every quota 5, or no quota.
WeekendNights ==
    \E q \in {0, 5, Unbounded} :
        /\ coverage = [f \in {"NHMC"} |->
                          [s \in ShiftSet |-> IF s = "PM" THEN Weekends ELSE {}]]
        /\ volumes = [f \in {"NHMC"} |-> SameVolume(8000)]
        /\ weekend_days = Weekends
        /\ availability = [p \in {"p1"} |-> AllDayAvailable]
        /\ credentialing = [p \in {"p1"} |-> {"NHMC"}]
        /\ contracts = [p \in {"p1"} |-> Contract("IC", q, q, q, {})]

\* Scenario D: one provider with quotas total 8, PM 2, weekend 1 and ten
\* slots, three of them PM and one on a weekend day.
ScenarioD ==
    /\ coverage = [f \in {"NHMC"} |->
                      [s \in ShiftSet |->
                          IF s = "MD1" THEN {2, 3, 4, 5, 7, 9, 10}
                          ELSE IF s = "PM" THEN {12, 13, 16} ELSE {}]]
    /\ volumes = [f \in {"NHMC"} |-> SameVolume(8000)]
    /\ weekend_days = Weekends
    /\ availability = [p \in {"p1"} |-> AllDayAvailable]
    /\ credentialing = [p \in {"p1"} |-> {"NHMC"}]
    /\ contracts = [p \in {"p1"} |-> Contract("FT", 8, 1, 2, {})]

\* Catalogs that may be empty: no provider column, no facility, facilities
\* without a coverage day; and a provider who may hold no credential.
EdgeCatalog ==
    \E S \in SlotChoices \cup {{}}, F \in {{}, Range(FacilityOrder)},
       q \in QuotaChoices, P \in {{}, {"p1"}}, c \in {{}, {"NHMC", "NMMC"}} :
        /\ coverage = [f \in F |-> CoverageOf(S)[f]]
        /\ volumes = [f \in F |-> SameVolume(8000)]
        /\ weekend_days = Weekends
        /\ availability = [p \in P |-> AllDayAvailable]
        /\ credentialing = [p \in P |-> c]
        /\ contracts = [p \in P |-> Contract("IC", q[1], q[2], q[3], {})]

\* The end of the month: one facility needing one shift type on every day of
\* the last whole window of that type (MD1 27-31, MD2 24-31, PM 28-31), or MD1
\* on 27-29 and PM on 30-31; volume 10, one provider.
MonthEnd ==
    \E c \in {[MD1 |-> 27..31, MD2 |-> {}, PM |-> {}],
               [MD1 |-> {}, MD2 |-> 24..31, PM |-> {}],
               [MD1 |-> {}, MD2 |-> {}, PM |-> 28..31],
               [MD1 |-> 27..29, MD2 |-> {}, PM |-> 30..31]} :
        /\ coverage = [f \in {"NHMC"} |-> c]
        /\ volumes = [f \in {"NHMC"} |-> SameVolume(10000)]
        /\ weekend_days = Weekends
        /\ availability = [p \in {"p1"} |-> AllDayAvailable]
        /\ credentialing = [p \in {"p1"} |-> {"NHMC"}]
        /\ contracts =
              [p \in {"p1"} |->
                  Contract("IC", Unbounded, Unbounded, Unbounded, {})]

MaxChoiceSlots == 3

\* The contracts of two providers: who is on a Fixed (FT) contract and who
\* prefers MD1.
ContractChoices ==
    {[p1 |-> Contract("IC", Unbounded, Unbounded, Unbounded, {}),
      p2 |-> Contract("FT", Unbounded, Unbounded, Unbounded, {"MD1"})],
     [p1 |-> Contract("FT", Unbounded, Unbounded, Unbounded, {}),
      p2 |-> Contract("IC", Unbounded, Unbounded, Unbounded, {"MD1"})],
     [p1 |-> Contract("IC", Unbounded, Unbounded, Unbounded, {}),
      p2 |-> Contract("IC", Unbounded, Unbounded, Unbounded, {})],
     [p1 |-> Contract("IC", Unbounded, Unbounded, Unbounded, {"MD1"}),
      p2 |-> Contract("FT", Unbounded, Unbounded, Unbounded, {})]}

\* Two facilities with volume 6 (two of them fit in one MD1 shift), MD1 and PM
\* slots on days 2 and 3, two providers always available; the first may lack
\* the credential for NHMC.
ChoiceCatalog ==
    \E S \in {T \in SUBSET (Range(FacilityOrder) \X {"MD1", "PM"} \X {2, 3}) :
                 Cardinality(T) = MaxChoiceSlots},
       C \in ContractChoices, c1 \in {{"NMMC"}, {"NHMC", "NMMC"}} :
        /\ coverage = CoverageOf(S)
        /\ volumes = [f \in Range(FacilityOrder) |-> SameVolume(6000)]
        /\ weekend_days = Weekends
        /\ availability = [p \in {"p1", "p2"} |-> AllDayAvailable]
        /\ credentialing =
              [p \in {"p1", "p2"} |-> IF p = "p1" THEN c1 ELSE {"NHMC", "NMMC"}]
        /\ contracts = C

SolverStatuses == {"OPTIMAL", "FEASIBLE", "UNKNOWN"}

Init ==
    /\ InitState
    /\ solver_status \in SolverStatuses
    /\ GeneralCatalog \/ ScenarioA
    /\ slots = BuildSlots

-----------------------------------------------------------------------------
(* Scheduler.run *)

\* run, after Phase 1: the uncovered list, then phase2_minimize's copies.
StartPhase2(sol, sh, vol) ==
    /\ sol_p1' = sol /\ shifts_p1' = sh /\ vol_p1' = vol
    /\ uncovered' = Uncovered(sol)
    /\ pc' = "minimize"
    /\ mi' = 1
    /\ sol_min' = sol /\ shifts_min' = sh /\ vol_min' = vol

\* An exception of Phase 1 leaves run: nothing is returned to it.
Raise ==
    /\ pc' = "error"
    /\ UNCHANGED <<sol_p1, shifts_p1, vol_p1, uncovered, minvars>>

\* What solver.Solve may leave in the variables for the status it returns.
SolverResults ==
    IF solver_status = "OPTIMAL" THEN OptimalSolutions
    ELSE {X \in SUBSET XKeys : Feasible(X)}

\* run_phase1_cpsat, status OPTIMAL or FEASIBLE: extract the solution.
ExactSolve ==
    /\ pc = "phase1"
    /\ solver_status \in {"OPTIMAL", "FEASIBLE"}
    /\ \E X \in SolverResults :
          IF CoveragePrinted(Cardinality(DOMAIN ExtractSolution(X)), Len(slots))
          THEN StartPhase2(ExtractSolution(X), ExtractShifts(X), ExtractVolume(X))
          ELSE Raise
    /\ UNCHANGED <<flaskvars, inputs, gi, balvars, consvars, scorevars>>

\* Mutant of SolveFailed: a variable the failed solve had set is extracted
\* before the fallback starts.
SolveFailed_KeepsIncumbent ==
    /\ pc = "phase1"
    /\ solver_status \notin {"OPTIMAL", "FEASIBLE"}
    /\ pc' = "greedy"
    /\ gi' = 1
    /\ \E X \in {{k} : k \in XKeys} :
          /\ sol_p1' = ExtractSolution(X)
          /\ shifts_p1' = ExtractShifts(X)
          /\ vol_p1' = ExtractVolume(X)
    /\ UNCHANGED <<flaskvars, inputs, uncovered, minvars, balvars, consvars, scorevars>>

\* run_phase1_cpsat, any other status: fall back to run_phase1_greedy.
SolveFailed ==
    /\ pc = "phase1"
    /\ solver_status \notin {"OPTIMAL", "FEASIBLE"}
    /\ pc' = "greedy"
    /\ gi' = 1
    /\ sol_p1' = EmptyMap /\ shifts_p1' = EmptyMap /\ vol_p1' = EmptyMap
    /\ UNCHANGED <<flaskvars, inputs, uncovered, minvars, balvars, consvars, scorevars>>

\* run_phase1_greedy: one iteration of "for f, s, d in slots".
GreedyStep ==
    /\ pc = "greedy"
    /\ gi <= Len(slots)
    /\ LET t == slots[gi]
           eligible == EligibleSeq(t, shifts_p1, vol_p1, TRUE)
           scored == [p \in Range(eligible) |->
                         score_greedy(p, t[2], t[3], shifts_p1)]
       IN IF eligible # <<>>
          THEN LET chosen == FirstBest(eligible, scored)
               IN /\ sol_p1' = SetSlot(sol_p1, t, chosen)
                  /\ shifts_p1' = AddShift(shifts_p1, chosen, t[2], t[3])
                  /\ vol_p1' = AddVolume(vol_p1, chosen, t[1], t[2], t[3])
          ELSE UNCHANGED <<sol_p1, shifts_p1, vol_p1>>
    /\ gi' = gi + 1
    /\ UNCHANGED <<flaskvars, inputs, pc, uncovered, minvars, balvars, consvars, scorevars>>

\* run_phase1_greedy returns; run goes on to Phase 2.
GreedyReturn ==
    /\ pc = "greedy"
    /\ gi > Len(slots)
    /\ IF CoveragePrinted(Cardinality(DOMAIN sol_p1), Len(slots))
       THEN StartPhase2(sol_p1, shifts_p1, vol_p1)
       ELSE Raise
    /\ UNCHANGED <<flaskvars, inputs, gi, balvars, consvars, scorevars>>

\* phase2_minimize: the body of one iteration of "for f, s, d in uncovered".
MinimizeBody ==
    /\ LET t == uncovered[mi]
           eligible == EligibleSeq(t, shifts_min, vol_min, FALSE)
           scored == [p \in Range(eligible) |->
                         score_minimize_providers(p, t[2], t[3], shifts_min)]
       IN IF eligible # <<>>
          THEN LET chosen == FirstBest(eligible, scored)
               IN /\ sol_min' = SetSlot(sol_min, t, chosen)
                  /\ shifts_min' = AddShift(shifts_min, chosen, t[2], t[3])
                  /\ vol_min' = AddVolume(vol_min, chosen, t[1], t[2], t[3])
          ELSE UNCHANGED <<sol_min, shifts_min, vol_min>>
    /\ mi' = mi + 1

\* phase2_minimize: one iteration of "for f, s, d in uncovered".
MinimizeStep ==
    /\ pc = "minimize"
    /\ mi <= Len(uncovered)
    /\ MinimizeBody
    /\ UNCHANGED <<flaskvars, inputs, pc, p1vars, balvars, consvars, scorevars>>

\* phase2_balanced: its copies of the base; every provider gets a (possibly
\* empty) set of shifts.
BalancedCopies ==
    /\ bi' = 1
    /\ sol_bal' = sol_p1
    /\ shifts_bal' = [p \in DOMAIN shifts_p1 \cup Range(providers) |->
                         ShiftsOf(shifts_p1, p)]
    /\ vol_bal' = vol_p1

\* phase2_minimize returns; phase2_balanced is entered.
StartBalanced ==
    /\ pc = "minimize"
    /\ mi > Len(uncovered)
    /\ pc' = "balanced"
    /\ BalancedCopies
    /\ UNCHANGED <<flaskvars, inputs, p1vars, minvars, consvars, scorevars>>

\* Mutant of BalancedBody: no copies were taken, the iteration works on the
\* maps and sets that phase2_minimize is filling.
BalancedBody_OnMinimizeState ==
    /\ LET t == uncovered[bi]
           eligible == EligibleSeq(t, shifts_min, vol_min, FALSE)
           scored == [p \in Range(eligible) |->
                         score_balanced_providers(p, t[2], t[3], shifts_min)]
       IN IF eligible # <<>>
          THEN LET chosen == FirstBest(eligible, scored)
               IN /\ sol_bal' = SetSlot(sol_min, t, chosen)
                  /\ shifts_bal' = AddShift(shifts_min, chosen, t[2], t[3])
                  /\ vol_bal' = AddVolume(vol_min, chosen, t[1], t[2], t[3])
          ELSE /\ sol_bal' = sol_min /\ shifts_bal' = shifts_min
               /\ vol_bal' = vol_min
    /\ bi' = bi + 1

\* phase2_balanced: the body of one iteration of "for f, s, d in uncovered".
BalancedBody ==
    /\ LET t == uncovered[bi]
           eligible == EligibleSeq(t, shifts_bal, vol_bal, FALSE)
           scored == [p \in Range(eligible) |->
                         score_balanced_providers(p, t[2], t[3], shifts_bal)]
       IN IF eligible # <<>>
          THEN LET chosen == FirstBest(eligible, scored)
               IN /\ sol_bal' = SetSlot(sol_bal, t, chosen)
                  /\ shifts_bal' = AddShift(shifts_bal, chosen, t[2], t[3])
                  /\ vol_bal' = AddVolume(vol_bal, chosen, t[1], t[2], t[3])
          ELSE UNCHANGED <<sol_bal, shifts_bal, vol_bal>>
    /\ bi' = bi + 1

\* phase2_balanced: one iteration of "for f, s, d in uncovered".
BalancedStep ==
    /\ pc = "balanced"
    /\ bi <= Len(uncovered)
    /\ BalancedBody
    /\ UNCHANGED <<flaskvars, inputs, pc, p1vars, minvars, consvars, scorevars>>

\* Mutant of Conservative: the copy is taken from the Minimize-providers state.
Conservative_FromMinimize ==
    /\ pc = "balanced"
    /\ bi > Len(uncovered)
    /\ pc' = "scoring"
    /\ sol_cons' = sol_min /\ shifts_cons' = shifts_min /\ vol_cons' = vol_min
    /\ UNCHANGED <<flaskvars, inputs, p1vars, minvars, balvars, scorevars>>

\* phase2_balanced returns; the Conservative variation copies Phase 1.
Conservative ==
    /\ pc = "balanced"
    /\ bi > Len(uncovered)
    /\ pc' = "scoring"
    /\ sol_cons' = sol_p1 /\ shifts_cons' = shifts_p1 /\ vol_cons' = vol_p1
    /\ UNCHANGED <<flaskvars, inputs, p1vars, minvars, balvars, scorevars>>

\* run: the three scores, then _print_comparison ranks the variations and
\* prints the coverage of each.
ScoreAndCompare ==
    /\ pc = "scoring"
    /\ score_min' = calculate_satisfaction_score(sol_min, shifts_min, Len(slots))
    /\ score_bal' = calculate_satisfaction_score(sol_bal, shifts_bal, Len(slots))
    /\ score_cons' = calculate_satisfaction_score(sol_cons, shifts_cons, Len(slots))
    /\ ranked' = sorted(variations,
                        [Minimize |-> score_min'.satisfaction_score,
                         Balanced |-> score_bal'.satisfaction_score,
                         Conservative |-> score_cons'.satisfaction_score])
    /\ pc' = IF \A sol \in {sol_min, sol_bal, sol_cons} :
                   CoveragePrinted(Cardinality(DOMAIN sol \cap Range(slots)),
                                   Len(slots))
             THEN "done" ELSE "error"
    /\ UNCHANGED <<flaskvars, inputs, p1vars, minvars, balvars, consvars>>

Next ==
    \/ ExactSolve
    \/ SolveFailed
    \/ GreedyStep
    \/ GreedyReturn
    \/ MinimizeStep
    \/ StartBalanced
    \/ BalancedStep
    \/ Conservative
    \/ ScoreAndCompare

Spec == Init /\ [][Next]_vars

\* The long month, for the runs in which the solver proves optimality or
\* gives up (with FEASIBLE it may return any of about two million rosters).
InitMonth ==
    /\ InitState
    /\ solver_status \in {"OPTIMAL", "UNKNOWN"}
    /\ LongMonth
    /\ slots = BuildSlots

SpecMonth == InitMonth /\ [][Next]_vars

\* The two Phase-2 variations computed at the same time: both are called on
\* the Phase-1 result, take their copies, and their iterations interleave.
ForkVariations ==
    /\ pc = "minimize"
    /\ mi = 1
    /\ pc' = "phase2"
    /\ BalancedCopies
    /\ UNCHANGED <<flaskvars, inputs, p1vars, minvars, consvars, scorevars>>

ParMinimizeStep ==
    /\ pc = "phase2"
    /\ mi <= Len(uncovered)
    /\ MinimizeBody
    /\ UNCHANGED <<flaskvars, inputs, pc, p1vars, balvars, consvars, scorevars>>

ParBalancedStep ==
    /\ pc = "phase2"
    /\ bi <= Len(uncovered)
    /\ BalancedBody
    /\ UNCHANGED <<flaskvars, inputs, pc, p1vars, minvars, consvars, scorevars>>

\* Both calls have returned; the Conservative variation copies Phase 1.
JoinVariations ==
    /\ pc = "phase2"
    /\ mi > Len(uncovered)
    /\ bi > Len(uncovered)
    /\ pc' = "scoring"
    /\ sol_cons' = sol_p1 /\ shifts_cons' = shifts_p1 /\ vol_cons' = vol_p1
    /\ UNCHANGED <<flaskvars, inputs, p1vars, minvars, balvars, scorevars>>

NextPar ==
    \/ ExactSolve
    \/ SolveFailed
    \/ GreedyStep
    \/ GreedyReturn
    \/ ForkVariations
    \/ ParMinimizeStep
    \/ ParBalancedStep
    \/ JoinVariations
    \/ ScoreAndCompare

SpecPar == Init /\ [][NextPar]_vars

\* Catalogs on which the quotas are exceeded by many shifts.
InitScore ==
    /\ InitState
    /\ solver_status \in SolverStatuses
    /\ WeekendNights \/ ScenarioD
    /\ slots = BuildSlots

SpecScore == InitScore /\ [][Next]_vars

\* Runs on catalogs that may be empty. run is one sequential procedure: a
\* step that can be taken is taken.
InitEdge ==
    /\ InitState
    /\ solver_status \in SolverStatuses
    /\ EdgeCatalog
    /\ slots = BuildSlots

SpecEdge == InitEdge /\ [][Next]_vars /\ WF_vars(Next)

\* Runs on the last windows of the month.
InitMonthEnd ==
    /\ InitState
    /\ solver_status \in SolverStatuses
    /\ MonthEnd
    /\ slots = BuildSlots

SpecMonthEnd == InitMonthEnd /\ [][Next]_vars

\* Runs in which the providers differ in what the scoring rules look at.
InitChoice ==
    /\ InitState
    /\ solver_status \in SolverStatuses
    /\ ChoiceCatalog
    /\ slots = BuildSlots

SpecChoice == InitChoice /\ [][Next]_vars


-----------------------------------------------------------------------------
(* Properties *)

\* The final state of the three variations: solution, WorkingShift sets, volumes.
Final ==
    {<<sol_min, shifts_min, vol_min>>, <<sol_bal, shifts_bal, vol_bal>>,
     <<sol_cons, shifts_cons, vol_cons>>}

ExactPath == solver_status \in {"OPTIMAL", "FEASIBLE"}

\* The facilities the exposed map assigns to p under (s, d).
AssignedTo(sol, p, s, d) ==
    {f \in Range(facilities) :
        <<f, s, d>> \in DOMAIN sol /\ sol[<<f, s, d>>] = p}

WeekendCount(W) == Cardinality({w \in W : w[2] \in weekend_days})
PMCount(W) == Cardinality({w \in W : w[1] = "PM"})

\* C1: in the final state of every variation no provider has two working
\* shifts on the same day.
C1_SingleShiftPerDay ==
    pc = "done" =>
        \A v \in Final : \A p \in DOMAIN v[2] :
            \A w1, w2 \in v[2][p] : w1[2] = w2[2] => w1 = w2

\* C2: in the final state of every variation the volume accumulated for a
\* provider under a working shift (the sum of the volumes of the facilities it
\* was given there) lies in the shift type's band, and is 0 under a
\* (shift, day) the provider does not work.
C2_VolumeBand ==
    pc = "done" =>
        \A v \in Final : \A p \in Range(providers) : \A s \in ShiftSet : \A d \in days :
            IF <<s, d>> \in ShiftsOf(v[2], p)
            THEN /\ VolumeAt(v[3], <<p, s, d>>) >= volume_limits[s][1]
                 /\ VolumeAt(v[3], <<p, s, d>>) <= volume_limits[s][2]
            ELSE VolumeAt(v[3], <<p, s, d>>) = 0

\* C3: in the final state of every variation every window of 5 days holds at
\* most 4 MD1 shifts of a provider, every window of 8 days at most 7 MD2, every
\* window of 4 days at most 3 PM, every window of 5 days at most 4 MD1 + PM.
C3_WindowCeilings ==
    pc = "done" =>
        \A v \in Final : \A p \in DOMAIN v[2] :
            /\ \A a \in 1..(LastDay - 4) : CountIn(v[2][p], "MD1", a, a + 4) <= 4
            /\ \A a \in 1..(LastDay - 7) : CountIn(v[2][p], "MD2", a, a + 7) <= 7
            /\ \A a \in 1..(LastDay - 3) : CountIn(v[2][p], "PM", a, a + 3) <= 3
            /\ \A a \in 1..(LastDay - 4) :
                  CountIn(v[2][p], "MD1", a, a + 4)
                    + CountIn(v[2][p], "PM", a, a + 4) <= 4

EligibleAssignment(sol) ==
    \A t \in DOMAIN sol :
        /\ t \in Range(slots)
        /\ t[1] \in Credentialed(sol[t])
        /\ t[2] \in Available(sol[t], t[3])

\* C4: every assignment, in every state of Phase 1 and of every variation, is
\* of a slot of the catalog to a provider credentialed for the facility and
\* available for the shift type on that day; so is every variable of x.
C4_EligibleByConstruction ==
    /\ EligibleAssignment(sol_p1)
    /\ EligibleAssignment(sol_min)
    /\ EligibleAssignment(sol_bal)
    /\ EligibleAssignment(sol_cons)
    /\ pc = "phase1" =>
          \A k \in XKeys :
              /\ <<k[2], k[3], k[4]>> \in Range(slots)
              /\ k[2] \in Credentialed(k[1])
              /\ k[3] \in Available(k[1], k[4])

\* C4 witness: the greedy fallback and Phase 2 both assigned, with a provider
\* of the catalog who may not take one of the assigned slots.
C4_Witness ==
    /\ pc = "done"
    /\ solver_status = "UNKNOWN"
    /\ sol_p1 # EmptyMap
    /\ DOMAIN sol_bal # DOMAIN sol_p1
    /\ \E t \in DOMAIN sol_bal : \E p \in Range(providers) :
          t[2] \notin Available(p, t[3]) \/ t[1] \notin Credentialed(p)

\* C5: in the final state of every variation (s, d) is in provider_shifts[p]
\* exactly when the solution map gives p some facility under (s, d).
C5_WorkingShiftIffAssigned ==
    pc = "done" =>
        \A v \in Final : \A p \in Range(providers) : \A s \in ShiftSet : \A d \in days :
            <<s, d>> \in ShiftsOf(v[2], p) <=> AssignedTo(v[1], p, s, d) # {}

\* C6: in the Phase-1 solution of the exact solver every provider works at
\* most its contracted total number of shifts.
C6_ExactTotalQuota ==
    (ExactPath /\ pc # "phase1") =>
        \A p \in DOMAIN shifts_p1 :
            Cardinality(shifts_p1[p]) <= Quota(p, "total_shifts")

\* C7: in the Phase-1 solution of the exact solver every provider works at
\* most its weekend quota on weekend days and at most its PM quota of PM shifts.
C7_ExactWeekendPMQuota ==
    (ExactPath /\ pc # "phase1") =>
        \A p \in DOMAIN shifts_p1 :
            /\ WeekendCount(shifts_p1[p]) <= Quota(p, "weekend_shifts")
            /\ PMCount(shifts_p1[p]) <= Quota(p, "pm_shifts")

\* C7 witness: the exact solve used up a provider's weekend and PM quota and
\* left a slot uncovered.
C7_Witness ==
    /\ ExactPath /\ pc = "minimize" /\ mi = 1
    /\ uncovered # <<>>
    /\ \E p \in DOMAIN shifts_p1 :
          /\ Quota(p, "weekend_shifts") = 1 /\ WeekendCount(shifts_p1[p]) = 1
          /\ Quota(p, "pm_shifts") = 1 /\ PMCount(shifts_p1[p]) = 1

\* C8: in the final state of every variation every provider has at most 20
\* working shifts.
C8_AbsoluteCeiling ==
    pc = "done" =>
        \A v \in Final : \A p \in DOMAIN v[2] :
            Cardinality(v[2][p]) <= AbsoluteCeiling

\* C9: in the final state of every variation no provider has, on one day, MD2
\* at a facility of group 1 and MD2 at a facility of group 2.
C9_SiteGrouping ==
    pc = "done" =>
        \A v \in Final : \A p \in Range(providers) : \A d \in days :
            ~ /\ AssignedTo(v[1], p, "MD2", d) \cap group1 # {}
              /\ AssignedTo(v[1], p, "MD2", d) \cap group2 # {}

\* The hard conditions of Phase 2: credentialed, available, volume at most the
\* band maximum, fewer than 20 working shifts. No quota.
HardEligible(p, t, provider_shifts, provider_daily_volume) ==
    /\ t[1] \in Credentialed(p)
    /\ t[2] \in Available(p, t[3])
    /\ VolumeAt(provider_daily_volume, <<p, t[2], t[3]>>) + Volume(t[1], t[2])
          <= volume_limits[t[2]][2]
    /\ Cardinality(ShiftsOf(provider_shifts, p)) < AbsoluteCeiling

\* C10: a Phase-2 step of Minimize-providers or Balanced covers its slot
\* whenever some provider meets the hard conditions, whatever the quotas, and
\* covers it with such a provider.
C10_Phase2QuotasSoft ==
    [][/\ (/\ pc = "minimize" /\ mi <= Len(uncovered)
           /\ \E p \in Range(providers) :
                 HardEligible(p, uncovered[mi], shifts_min, vol_min))
          => /\ uncovered[mi] \in DOMAIN sol_min'
             /\ HardEligible(sol_min'[uncovered[mi]], uncovered[mi],
                             shifts_min, vol_min)
       /\ (/\ pc = "balanced" /\ bi <= Len(uncovered)
           /\ \E p \in Range(providers) :
                 HardEligible(p, uncovered[bi], shifts_bal, vol_bal))
          => /\ uncovered[bi] \in DOMAIN sol_bal'
             /\ HardEligible(sol_bal'[uncovered[bi]], uncovered[bi],
                             shifts_bal, vol_bal)]_vars

\* C10 witness (Scenario B): Minimize-providers and Balanced covered a slot
\* that Phase 1 left uncovered with a provider whose total, weekend or PM quota
\* was already reached.
C10_Witness ==
    /\ pc = "done"
    /\ \E t \in DOMAIN sol_min \ DOMAIN sol_p1 :
          /\ t \in DOMAIN sol_bal
          /\ sol_bal[t] = sol_min[t]
          /\ Cardinality(ShiftsOf(shifts_p1, sol_min[t]))
                >= Quota(sol_min[t], "total_shifts")
          /\ t[2] = "PM" /\ PMCount(ShiftsOf(shifts_p1, sol_min[t]))
                >= Quota(sol_min[t], "pm_shifts")

\* C11: from the Phase-1 state on, the slots covered by Minimize-providers and
\* (once it has its copy) by Balanced include every slot Phase 1 covered, and
\* in the final state Conservative covers exactly the slots Phase 1 covered.
C11_CoverageMonotone ==
    /\ pc \in {"minimize", "balanced", "scoring", "done"} =>
          DOMAIN sol_p1 \subseteq DOMAIN sol_min
    /\ pc \in {"balanced", "scoring", "done"} =>
          DOMAIN sol_p1 \subseteq DOMAIN sol_bal
    /\ pc \in {"scoring", "done"} =>
          /\ DOMAIN sol_cons = DOMAIN sol_p1
          /\ DOMAIN sol_cons \subseteq DOMAIN sol_min
          /\ DOMAIN sol_cons \subseteq DOMAIN sol_bal

\* C11 witness: Phase 1 covered a slot and both Phase-2 variations covered
\* one more than Conservative.
C11_Witness ==
    /\ pc = "done"
    /\ sol_cons # EmptyMap
    /\ DOMAIN sol_min # DOMAIN sol_cons
    /\ DOMAIN sol_bal # DOMAIN sol_cons

\* C12: Conservative's solution map, WorkingShift sets and volume map are the
\* Phase-1 result, its score record is the score of that Phase-1 state, and no
\* step of Minimize-providers, of Balanced or of the scoring changes the
\* Phase-1 result.
C12_ConservativeIsPhase1 ==
    /\ [](pc \in {"scoring", "done"} =>
            /\ sol_cons = sol_p1 /\ shifts_cons = shifts_p1 /\ vol_cons = vol_p1)
    /\ [](pc = "done" =>
            score_cons = calculate_satisfaction_score(sol_p1, shifts_p1, Len(slots)))
    /\ [][(pc \in {"minimize", "balanced", "scoring"}) =>
            UNCHANGED <<sol_p1, shifts_p1, vol_p1>>]_vars

\* C12 witness: both Phase-2 variations went beyond a non-empty Phase-1 result
\* and score worse than Conservative.
C12_Witness ==
    /\ pc = "done"
    /\ sol_cons # EmptyMap
    /\ shifts_min # shifts_cons /\ shifts_bal # shifts_cons
    /\ QLess(score_cons.satisfaction_score, score_min.satisfaction_score)
    /\ QLess(score_cons.satisfaction_score, score_bal.satisfaction_score)

\* phase2_minimize run alone on the Phase-1 result: its solution map,
\* WorkingShift sets and volume map after the first n uncovered slots.
RECURSIVE MinimizeAlone(_)
MinimizeAlone(n) ==
    IF n = 0 THEN <<sol_p1, shifts_p1, vol_p1>>
    ELSE LET prev == MinimizeAlone(n - 1)
             t == uncovered[n]
             eligible == EligibleSeq(t, prev[2], prev[3], FALSE)
             scored == [p \in Range(eligible) |->
                           score_minimize_providers(p, t[2], t[3], prev[2])]
         IN IF eligible = <<>> THEN prev
            ELSE LET chosen == FirstBest(eligible, scored)
                 IN <<SetSlot(prev[1], t, chosen),
                      AddShift(prev[2], chosen, t[2], t[3]),
                      AddVolume(prev[3], chosen, t[1], t[2], t[3])>>

\* phase2_balanced run alone on the Phase-1 result.
RECURSIVE BalancedAlone(_)
BalancedAlone(n) ==
    IF n = 0
    THEN <<sol_p1,
           [p \in DOMAIN shifts_p1 \cup Range(providers) |-> ShiftsOf(shifts_p1, p)],
           vol_p1>>
    ELSE LET prev == BalancedAlone(n - 1)
             t == uncovered[n]
             eligible == EligibleSeq(t, prev[2], prev[3], FALSE)
             scored == [p \in Range(eligible) |->
                           score_balanced_providers(p, t[2], t[3], prev[2])]
         IN IF eligible = <<>> THEN prev
            ELSE LET chosen == FirstBest(eligible, scored)
                 IN <<SetSlot(prev[1], t, chosen),
                      AddShift(prev[2], chosen, t[2], t[3]),
                      AddVolume(prev[3], chosen, t[1], t[2], t[3])>>

\* C13: when the iterations of Minimize-providers and Balanced interleave in
\* any order, the state of each after its first k iterations is the state it
\* has after k iterations run alone on the Phase-1 result, whatever the other
\* has done, so both final results are those of the runs alone; and no
\* iteration changes the Phase-1 result.
C13_VariationsIndependent ==
    /\ [](pc \in {"phase2", "scoring", "done"} =>
            /\ <<sol_min, shifts_min, vol_min>> = MinimizeAlone(mi - 1)
            /\ <<sol_bal, shifts_bal, vol_bal>> = BalancedAlone(bi - 1))
    /\ [][(pc = "phase2") => UNCHANGED <<sol_p1, shifts_p1, vol_p1, uncovered>>]_vars

\* C13 witness: with two uncovered slots, each variation has done its first
\* iteration and assigned, Minimize-providers will assign again, and the two
\* variations end with different solution maps.
C13_Witness ==
    /\ pc = "phase2"
    /\ mi = 2 /\ bi = 2 /\ Len(uncovered) = 2
    /\ sol_min # sol_p1 /\ sol_bal # sol_p1
    /\ MinimizeAlone(2)[1] # BalancedAlone(2)[1]
    /\ MinimizeAlone(2)[1] # sol_min

\* The three variations with their score records.
Scored ==
    {<<sol_min, shifts_min, score_min>>, <<sol_bal, shifts_bal, score_bal>>,
     <<sol_cons, shifts_cons, score_cons>>}

\* C14: the satisfaction score of every variation is at least 0 and at most 1.
C14_ScoreInUnitInterval ==
    pc = "done" =>
        \A v \in Scored :
            /\ v[3].satisfaction_score[1] >= 0
            /\ v[3].satisfaction_score[1] <= v[3].satisfaction_score[2]

\* max(0, worked - quota), 0 when the quota is the unbounded sentinel
OverQuota(worked, quota) ==
    IF quota = Unbounded THEN 0
    ELSE IF worked > quota THEN worked - quota ELSE 0

\* 1.0 * M + 1.5 * P + 2.0 * W of provider p, doubled
WeightedExcess2(provider_shifts, p) ==
    LET W == ShiftsOf(provider_shifts, p)
    IN 2 * OverQuota(Cardinality(W), Quota(p, "total_shifts"))
         + 3 * OverQuota(PMCount(W), Quota(p, "pm_shifts"))
         + 4 * OverQuota(WeekendCount(W), Quota(p, "weekend_shifts"))

RECURSIVE SumWeightedExcess2(_, _)
SumWeightedExcess2(provider_shifts, P) ==
    IF P = {} THEN 0
    ELSE LET p == CHOOSE q \in P : TRUE
         IN WeightedExcess2(provider_shifts, p)
              + SumWeightedExcess2(provider_shifts, P \ {p})

\* C15: the score of every variation is the sum over the providers of
\* 1.0 * M + 1.5 * P + 2.0 * W divided by provider count * 20 * 2.0, where
\* M, P, W are max(0, worked - quota) for the total, PM and weekend counts and
\* 0 for an unbounded quota.
C15_ScoreFormula ==
    pc = "done" =>
        \A v \in Scored :
            LET sum2 == SumWeightedExcess2(v[2], Range(providers))
                n == Len(providers)
            IN /\ v[3].total_weighted_excess = sum2
               /\ n > 0 =>
                     v[3].satisfaction_score[1] * (2 * n * 20 * 2)
                        = sum2 * v[3].satisfaction_score[2]

\* C15 witness (Scenario D): a provider with 10 worked against 8, 3 PM against
\* 2 and 1 weekend shift against 1 has weighted excess 3.5 and score 3.5 / 40.
C15_Witness ==
    /\ pc = "done"
    /\ providers = <<"p1">>
    /\ Quota("p1", "total_shifts") = 8 /\ Cardinality(shifts_min["p1"]) = 10
    /\ Quota("p1", "pm_shifts") = 2 /\ PMCount(shifts_min["p1"]) = 3
    /\ Quota("p1", "weekend_shifts") = 1 /\ WeekendCount(shifts_min["p1"]) = 1
    /\ score_min.total_weighted_excess = 7
    /\ score_min.satisfaction_score = <<7, 80>>
    /\ score_min.total_M = 2 /\ score_min.total_P = 1 /\ score_min.total_W = 0

\* The distinct (shift, day) pairs under which p was given some facility,
\* read off the keys of the volume map.
PairsWorked(provider_daily_volume, p) ==
    {<<k[2], k[3]>> : k \in {j \in DOMAIN provider_daily_volume : j[1] = p}}

RECURSIVE SumOver(_, _)
SumOver(f, S) ==
    IF S = {} THEN 0
    ELSE LET x == CHOOSE y \in S : TRUE IN f[x] + SumOver(f, S \ {x})

\* C16: in every state the set whose size the 20-shift ceiling and the quota
\* checks read holds one element per distinct (shift, day) under which the
\* provider was given facilities, however many facilities that is; and the M,
\* P and W totals of the scores are the excesses of those counts.
C16_OneShiftPerShiftDay ==
    /\ \A v \in {<<shifts_p1, vol_p1>>, <<shifts_min, vol_min>>,
                 <<shifts_bal, vol_bal>>, <<shifts_cons, vol_cons>>} :
          \A p \in Range(providers) : ShiftsOf(v[1], p) = PairsWorked(v[2], p)
    /\ pc = "done" =>
          \A v \in {<<vol_min, score_min>>, <<vol_bal, score_bal>>,
                    <<vol_cons, score_cons>>} :
              LET P == Range(providers)
                  W == [p \in P |-> PairsWorked(v[1], p)]
              IN /\ v[2].total_M =
                      SumOver([p \in P |-> OverQuota(Cardinality(W[p]),
                                                     Quota(p, "total_shifts"))], P)
                 /\ v[2].total_P =
                      SumOver([p \in P |-> OverQuota(PMCount(W[p]),
                                                     Quota(p, "pm_shifts"))], P)
                 /\ v[2].total_W =
                      SumOver([p \in P |-> OverQuota(WeekendCount(W[p]),
                                                     Quota(p, "weekend_shifts"))], P)

\* C16 witness: a provider with total quota 1 holds two facilities under one
\* (shift, day), has one working shift and no excess.
C16_Witness ==
    /\ pc = "done"
    /\ \E p \in DOMAIN shifts_min : \E w \in shifts_min[p] :
          /\ Cardinality(AssignedTo(sol_min, p, w[1], w[2])) = 2
          /\ Cardinality(shifts_min[p]) = 1
          /\ Quota(p, "total_shifts") = 1
          /\ score_min.total_M = 0

\* run_phase1_greedy on empty maps: its solution map, WorkingShift sets and
\* volume map after the first n slots of the catalog.
RECURSIVE GreedyAlone(_)
GreedyAlone(n) ==
    IF n = 0 THEN <<EmptyMap, EmptyMap, EmptyMap>>
    ELSE LET prev == GreedyAlone(n - 1)
             t == slots[n]
             eligible == EligibleSeq(t, prev[2], prev[3], TRUE)
             scored == [p \in Range(eligible) |->
                           score_greedy(p, t[2], t[3], prev[2])]
         IN IF eligible = <<>> THEN prev
            ELSE LET chosen == FirstBest(eligible, scored)
                 IN <<SetSlot(prev[1], t, chosen),
                      AddShift(prev[2], chosen, t[2], t[3]),
                      AddVolume(prev[3], chosen, t[1], t[2], t[3])>>

\* C17: when the solver's status is neither OPTIMAL nor FEASIBLE, the fallback
\* works from empty maps through the slots of the catalog in order, the
\* Phase-1 result handed to Phase 2 is its result over the whole catalog, and
\* with a non-empty slot catalog the run does not end in an error.
C17_FallbackFromEmpty ==
    ~ExactPath =>
        /\ pc = "greedy" => <<sol_p1, shifts_p1, vol_p1>> = GreedyAlone(gi - 1)
        /\ pc \in {"minimize", "balanced", "scoring", "done"} =>
              /\ <<sol_p1, shifts_p1, vol_p1>> = GreedyAlone(Len(slots))
              /\ uncovered = Uncovered(GreedyAlone(Len(slots))[1])
        /\ slots # <<>> => pc # "error"

\* C17 witness: the solver gave up, the fallback covered a slot and left one
\* to Phase 2.
C17_Witness ==
    /\ ~ExactPath
    /\ pc = "minimize" /\ mi = 1
    /\ sol_p1 # EmptyMap
    /\ uncovered # <<>>

\* The satisfaction score of the variation called name.
ScoreOf(name) ==
    IF name = "Minimize" THEN score_min.satisfaction_score
    ELSE IF name = "Balanced" THEN score_bal.satisfaction_score
    ELSE score_cons.satisfaction_score

\* The position of a variation in the order they are evaluated.
EvalOrder(name) ==
    IF name = "Minimize" THEN 1 ELSE IF name = "Balanced" THEN 2 ELSE 3

\* C18: the ranking holds each of the three variations once, in ascending
\* order of satisfaction score, and two variations with equal scores stand in
\* the order Minimize, Balanced, Conservative.
C18_RankedAscendingStable ==
    pc = "done" =>
        /\ Len(ranked) = 3
        /\ Range(ranked) = {"Minimize", "Balanced", "Conservative"}
        /\ \A i, j \in 1..3 :
              i < j =>
                 /\ ~QLess(ScoreOf(ranked[j]), ScoreOf(ranked[i]))
                 /\ ~QLess(ScoreOf(ranked[i]), ScoreOf(ranked[j])) =>
                       EvalOrder(ranked[i]) < EvalOrder(ranked[j])

\* C18 witness: Conservative scores strictly lower than the other two, which
\* tie and keep their evaluation order behind it.
C18_Witness ==
    /\ pc = "done"
    /\ QLess(score_cons.satisfaction_score, score_min.satisfaction_score)
    /\ score_min.satisfaction_score = score_bal.satisfaction_score
    /\ ranked = <<"Conservative", "Minimize", "Balanced">>

\* C19: a run on a non-empty provider catalog and a non-empty slot catalog
\* never ends in an error and eventually ends with the three variations, each
\* with its score record, and the ranking; the slots left without a provider
\* are counted as uncovered in the record.
C19_RunCompletes ==
    (providers # <<>> /\ slots # <<>>) =>
        /\ [](pc # "error")
        /\ <>(/\ pc = "done"
              /\ \A v \in Scored :
                    /\ DOMAIN v[3] # {}
                    /\ v[3].uncovered_slots = Len(slots) - Cardinality(DOMAIN v[1])
              /\ Len(ranked) = 3)

\* C19 witness: a run ended with all three variations scored although no slot
\* of a non-empty catalog could be covered, after the solver gave up.
C19_Witness ==
    /\ pc = "done"
    /\ providers # <<>> /\ slots # <<>>
    /\ ~ExactPath
    /\ sol_min = EmptyMap /\ sol_bal = EmptyMap /\ sol_cons = EmptyMap
    /\ score_min.uncovered_slots = Len(slots)
    /\ Len(ranked) = 3

\* C20: a run on an empty provider catalog or an empty slot catalog produces
\* no variation, no score record and no ranking.
C20_EmptyCatalogRejected ==
    (providers = <<>> \/ slots = <<>>) =>
        /\ pc # "done"
        /\ score_min = EmptyMap /\ score_bal = EmptyMap /\ score_cons = EmptyMap
        /\ ranked = <<>>

\* C22: in the Phase-1 solution of the exact solver, for every provider and
\* every start day d whose window lies within days 1..31, there are at most 4
\* MD1 shifts in d..d+4, at most 7 MD2 in d..d+7, at most 3 PM in d..d+3 and at
\* most 4 MD1 + PM in d..d+4.
C22_ExactWindowsEveryStart ==
    (ExactPath /\ pc \notin {"phase1", "error"}) =>
        \A p \in DOMAIN shifts_p1 :
            /\ \A d \in 1..(LastDay - 4) : CountIn(shifts_p1[p], "MD1", d, d + 4) <= 4
            /\ \A d \in 1..(LastDay - 7) : CountIn(shifts_p1[p], "MD2", d, d + 7) <= 7
            /\ \A d \in 1..(LastDay - 3) : CountIn(shifts_p1[p], "PM", d, d + 3) <= 3
            /\ \A d \in 1..(LastDay - 4) :
                  CountIn(shifts_p1[p], "MD1", d, d + 4)
                    + CountIn(shifts_p1[p], "PM", d, d + 4) <= 4

\* C22 witness: the solver proved optimal a roster that fills the last
\* 8-day window of the month with 7 MD2 shifts and leaves one day uncovered.
C22_Witness ==
    /\ solver_status = "OPTIMAL"
    /\ pc = "minimize" /\ mi = 1
    /\ Len(uncovered) = 1
    /\ CountIn(shifts_p1["p1"], "MD2", LastDay - 7, LastDay) = 7

\* Every entry of the map old is an entry of the map new.
Kept(old, new) ==
    \A t \in DOMAIN old : t \in DOMAIN new /\ new[t] = old[t]

\* Sets and volumes of old are still there in new, and no smaller.
Grown(old_shifts, new_shifts, old_volume, new_volume) ==
    /\ \A p \in DOMAIN old_shifts :
          p \in DOMAIN new_shifts /\ old_shifts[p] \subseteq new_shifts[p]
    /\ \A k \in DOMAIN old_volume :
          k \in DOMAIN new_volume /\ new_volume[k] >= old_volume[k]

\* C23: no step revokes or changes an assignment of the Phase-1 state or of a
\* variation, and no step shrinks a WorkingShift set or an accumulated volume;
\* an iteration of the fallback or of Phase 2 touches only the slot at its
\* index, which then moves on by one along the slot list (Phase 2: along the
\* slots Phase 1 left uncovered, in slot order).
C23_Irrevocable ==
    [][/\ Kept(sol_p1, sol_p1') /\ Grown(shifts_p1, shifts_p1', vol_p1, vol_p1')
       /\ Kept(sol_min, sol_min') /\ Grown(shifts_min, shifts_min', vol_min, vol_min')
       /\ Kept(sol_bal, sol_bal') /\ Grown(shifts_bal, shifts_bal', vol_bal, vol_bal')
       /\ Kept(sol_cons, sol_cons')
       /\ Grown(shifts_cons, shifts_cons', vol_cons, vol_cons')
       /\ (pc = "greedy" /\ pc' = "greedy") =>
             /\ gi' = gi + 1
             /\ DOMAIN sol_p1' \ DOMAIN sol_p1 \subseteq {slots[gi]}
       /\ (pc = "minimize" /\ pc' = "minimize") =>
             /\ mi' = mi + 1
             /\ DOMAIN sol_min' \ DOMAIN sol_min \subseteq {uncovered[mi]}
             /\ uncovered[mi] \notin DOMAIN sol_min
       /\ (pc = "balanced" /\ pc' = "balanced") =>
             /\ bi' = bi + 1
             /\ DOMAIN sol_bal' \ DOMAIN sol_bal \subseteq {uncovered[bi]}
             /\ uncovered[bi] \notin DOMAIN sol_bal]_vars

\* C23 witness: two iterations of Minimize-providers have each added an
\* assignment to a non-empty Phase-1 result.
C23_Witness ==
    /\ pc = "minimize" /\ mi = 3
    /\ sol_p1 # EmptyMap
    /\ Kept(sol_p1, sol_min)
    /\ Cardinality(DOMAIN sol_min) = Cardinality(DOMAIN sol_p1) + 2

\* The position of provider p in the sorted provider list.
Pos(p) == CHOOSE i \in 1..Len(providers) : providers[i] = p

\* The provider of the non-empty set P that comes first in the provider list.
FirstOf(P) == CHOOSE p \in P : \A q \in P : Pos(p) <= Pos(q)

\* C24: an iteration of the greedy fallback on slot (f, s, d) leaves the state
\* alone when no provider is eligible; otherwise it assigns the first, in
\* provider order, of the eligible providers already working (s, d) if there
\* is one and the first eligible provider if not. The next state is thereby a
\* function of the current one: two runs on the same catalogs go through the
\* same solution, WorkingShift and volume states.
C24_GreedyChoiceRule ==
    [][(pc = "greedy" /\ gi <= Len(slots)) =>
         LET t == slots[gi]
             E == Range(EligibleSeq(t, shifts_p1, vol_p1, TRUE))
             Wk == {p \in E : <<t[2], t[3]>> \in ShiftsOf(shifts_p1, p)}
             chosen == IF Wk # {} THEN FirstOf(Wk) ELSE FirstOf(E)
         IN IF E = {}
            THEN UNCHANGED <<sol_p1, shifts_p1, vol_p1>>
            ELSE /\ sol_p1' = [u \in DOMAIN sol_p1 \cup {t} |->
                                  IF u = t THEN chosen ELSE sol_p1[u]]
                 /\ shifts_p1' =
                      [p \in DOMAIN shifts_p1 \cup {chosen} |->
                          IF p = chosen
                          THEN ShiftsOf(shifts_p1, p) \cup {<<t[2], t[3]>>}
                          ELSE shifts_p1[p]]
                 /\ vol_p1' =
                      [k \in DOMAIN vol_p1 \cup {<<chosen, t[2], t[3]>>} |->
                          IF k = <<chosen, t[2], t[3]>>
                          THEN VolumeAt(vol_p1, k) + Volume(t[1], t[2])
                          ELSE vol_p1[k]]]_vars

\* C24 witness: the fallback gave a slot to the second provider, who already
\* worked that shift and day, although the first provider was eligible too.
C24_Witness ==
    /\ pc = "greedy" /\ gi > 1 /\ gi <= Len(slots) + 1
    /\ LET t == slots[gi - 1]
       IN /\ t \in DOMAIN sol_p1 /\ sol_p1[t] = "p2"
          /\ Cardinality(AssignedTo(sol_p1, "p2", t[2], t[3])) = 2
          /\ t[1] \in Credentialed("p1")
          /\ "p1" \notin DOMAIN shifts_p1

\* What Minimize-providers looks at, most important first: 2 for a provider
\* already working (s, d), 1 for one holding some working shift, 0 for one
\* holding none; then a shift-preference match; then the FT contract type.
MinimizeKey(p, s, d, provider_shifts) ==
    <<IF <<s, d>> \in ShiftsOf(provider_shifts, p) THEN 2
      ELSE IF ShiftsOf(provider_shifts, p) # {} THEN 1 ELSE 0,
      IF p \in DOMAIN contracts /\ s \in contracts[p]["preferred_shifts"]
      THEN 1 ELSE 0,
      IF p \in DOMAIN contracts /\ contracts[p]["contract_type"] = "FT"
      THEN 1 ELSE 0>>

\* a comes before b in the lexicographic order of triples
LexLess(a, b) ==
    \/ a[1] < b[1]
    \/ a[1] = b[1] /\ a[2] < b[2]
    \/ a[1] = b[1] /\ a[2] = b[2] /\ a[3] < b[3]

\* C25: the provider an iteration of Minimize-providers assigns to its slot
\* (f, s, d) is eligible, no eligible provider has a lexicographically greater
\* (class, preference match, FT) triple, and among the eligible providers with
\* the same triple it is the first in provider order.
C25_MinimizeLexicographic ==
    [][(pc = "minimize" /\ mi <= Len(uncovered)) =>
         LET t == uncovered[mi]
             E == Range(EligibleSeq(t, shifts_min, vol_min, FALSE))
             key == [p \in E |-> MinimizeKey(p, t[2], t[3], shifts_min)]
         IN IF E = {} THEN t \notin DOMAIN sol_min'
            ELSE /\ t \in DOMAIN sol_min'
                 /\ sol_min'[t] \in E
                 /\ \A q \in E :
                       /\ ~LexLess(key[sol_min'[t]], key[q])
                       /\ key[q] = key[sol_min'[t]] => Pos(sol_min'[t]) <= Pos(q)]_vars

\* C25 witness: Minimize-providers gave an MD1 slot to the second provider,
\* who prefers MD1, although the first provider was eligible and is on an FT
\* contract; neither held a shift.
C25_Witness ==
    /\ pc = "minimize" /\ mi = 2
    /\ sol_p1 = EmptyMap
    /\ uncovered[1] \in DOMAIN sol_min /\ sol_min[uncovered[1]] = "p2"
    /\ uncovered[1][2] = "MD1"
    /\ uncovered[1][1] \in Credentialed("p1")
    /\ contracts["p1"]["contract_type"] = "FT"
    /\ contracts["p2"]["contract_type"] = "IC"
    /\ "MD1" \in contracts["p2"]["preferred_shifts"]

\* The number of working shifts a provider holds
Load(provider_shifts, p) == Cardinality(ShiftsOf(provider_shifts, p))

\* The provider works shift s of day d already
Works(provider_shifts, p, s, d) == <<s, d>> \in ShiftsOf(provider_shifts, p)

\* The slot of the Balanced iteration about to run, its eligible providers,
\* and the provider the iteration assigns
BalSlot == uncovered[bi]
BalEligible == Range(EligibleSeq(BalSlot, shifts_bal, vol_bal, FALSE))
BalIterates == pc = "balanced" /\ bi <= Len(uncovered) /\ BalEligible # {}

\* When no eligible provider already works (s, d), the provider c has the
\* minimum shift count among the eligible ones, first in provider order
\* among those with that count.
LeastLoadedFirst(c) ==
    (\A q \in BalEligible : ~Works(shifts_bal, q, BalSlot[2], BalSlot[3])) =>
        \A q \in BalEligible :
            \/ Load(shifts_bal, c) < Load(shifts_bal, q)
            \/ Load(shifts_bal, c) = Load(shifts_bal, q) /\ Pos(c) <= Pos(q)

\* C26 as stated: a Balanced iteration assigns an eligible provider; when no
\* eligible provider already works (s, d) it is the least loaded one (ties by
\* provider order), and when it already works (s, d) every eligible provider
\* that does not has a shift count lower by less than 2.
C26_ContinuityUnderTwo ==
    [][BalIterates =>
         /\ BalSlot \in DOMAIN sol_bal' /\ sol_bal'[BalSlot] \in BalEligible
         /\ LET c == sol_bal'[BalSlot]
            IN /\ LeastLoadedFirst(c)
               /\ Works(shifts_bal, c, BalSlot[2], BalSlot[3]) =>
                    \A q \in BalEligible :
                        ~Works(shifts_bal, q, BalSlot[2], BalSlot[3]) =>
                            Load(shifts_bal, c) - Load(shifts_bal, q) < 2]_vars

\* c is at least as good as q for Balanced: with continuity worth two shifts
\* of load, c's adjusted load is lower, or equal and c comes first.
BalancedPrefers(c, q) ==
    LET adj(p) == Load(shifts_bal, p)
                  - (IF Works(shifts_bal, p, BalSlot[2], BalSlot[3]) THEN 2 ELSE 0)
    IN \/ adj(c) < adj(q)
       \/ adj(c) = adj(q) /\ Pos(c) <= Pos(q)

\* C26 amended: a Balanced iteration assigns an eligible provider; when no
\* eligible provider already works (s, d) it is the least loaded one (ties by
\* provider order); a provider already working (s, d) is preferred over one
\* that does not when its shift count is higher by less than 2, or by exactly
\* 2 and it comes first in provider order, and never when it is higher by
\* more than 2.
C26_ContinuityUpToTwo ==
    [][BalIterates =>
         /\ BalSlot \in DOMAIN sol_bal' /\ sol_bal'[BalSlot] \in BalEligible
         /\ LET c == sol_bal'[BalSlot]
            IN /\ LeastLoadedFirst(c)
               /\ \A q \in BalEligible : BalancedPrefers(c, q)
               /\ Works(shifts_bal, c, BalSlot[2], BalSlot[3]) =>
                    \A q \in BalEligible :
                        ~Works(shifts_bal, q, BalSlot[2], BalSlot[3]) =>
                            \/ Load(shifts_bal, c) - Load(shifts_bal, q) < 2
                            \/ /\ Load(shifts_bal, c) - Load(shifts_bal, q) = 2
                               /\ Pos(c) < Pos(q)]_vars

\* C26 witness: Balanced gave a slot to the first provider, who already works
\* that shift and day and holds two shifts, while the second provider was
\* eligible and held none.
C26_Witness ==
    /\ pc = "balanced" /\ bi = 2
    /\ Len(uncovered) = 1
    /\ uncovered[1] \in DOMAIN sol_bal /\ sol_bal[uncovered[1]] = "p1"
    /\ Load(shifts_p1, "p1") = 2
    /\ Works(shifts_p1, "p1", uncovered[1][2], uncovered[1][3])
    /\ Load(shifts_p1, "p2") = 0
    /\ "p2" \in Range(EligibleSeq(uncovered[1], shifts_p1, vol_p1, FALSE))

\* C27: on the greedy fallback path, after any prefix of the slots, every
\* provider's working-shift count is at most its total quota, its weekend
\* count at most its weekend quota and its PM count at most its PM quota.
C27_GreedyKeepsQuotas ==
    (~ExactPath /\ pc # "phase1") =>
        \A p \in DOMAIN shifts_p1 :
            /\ Load(shifts_p1, p) <= Quota(p, "total_shifts")
            /\ WeekendCount(shifts_p1[p]) <= Quota(p, "weekend_shifts")
            /\ PMCount(shifts_p1[p]) <= Quota(p, "pm_shifts")

-----------------------------------------------------------------------------
(* flask_app: POST /api/run/provider-analysis *)

MaxRequests == 2
Requests == 1..MaxRequests

\* challange_2 saves its workbook under this name in output_dir
FinalScheduleName == "Final_Schedule_Output.xlsx"

EXPECTED_BASENAMES ==
    <<"schedule_1_minimize_providers.xlsx",
      "schedule_2_balanced_providers.xlsx",
      "schedule_3_phase1_conservative.xlsx">>

\* The file names in the order of Python's string comparison ("F" < "s").
FileNameOrder == <<FinalScheduleName>> \o EXPECTED_BASENAMES

NameIndex(seq, name) == CHOOSE i \in 1..Len(seq) : seq[i] = name

NoPath == "None"

\* A workbook: who wrote it (0: Scheduler._export_with_score, r: the
\* challange_2 call of request r) and its cell B1. The scheduler writes the
\* satisfaction score there as text with four decimals (value: the number in
\* ten-thousandths); challange_2 writes a column header.
ScoreWorkbook(v) == [writer |-> 0, numeric |-> TRUE, value |-> v]
FinalWorkbook(r) == [writer |-> r, numeric |-> FALSE, value |-> 0]

\* Satisfaction scores of the schedule files, in ten-thousandths
B1Choices == {0, 1250, 2500}

\* What a run of the scheduler leaves in "output": its three files are
\* written in order, so a prefix of them is there.
ScheduleFilesLeft ==
    {f \in UNION {[{EXPECTED_BASENAMES[i] : i \in 1..n} -> B1Choices] : n \in 0..3} :
        TRUE}

\* _read_b1_score: float(B1), None when B1 is not a number
read_b1_score(dir, path) ==
    IF path \in DOMAIN dir /\ dir[path].numeric
    THEN [none |-> FALSE, value |-> dir[path].value]
    ELSE [none |-> TRUE, value |-> 0]

\* _find_schedule_files: the expected names that exist, in their order, then
\* any other file named schedule_*.xlsx (here: none; the name challange_2
\* writes does not start with "schedule_").
find_schedule_files(dir) ==
    SelectSeq(EXPECTED_BASENAMES, LAMBDA name : name \in DOMAIN dir)

\* _rank.key: (position among the expected names, minus the B1 score, name).
\* A missing score counts as -1e9, so its key is 1e9, above every real one.
RankKey(dir, p) ==
    <<IF p \in Range(EXPECTED_BASENAMES)
      THEN NameIndex(EXPECTED_BASENAMES, p) - 1
      ELSE Len(EXPECTED_BASENAMES) + 1,
      IF read_b1_score(dir, p).none THEN 1000000000
      ELSE 0 - read_b1_score(dir, p).value,
      NameIndex(FileNameOrder, p)>>

\* _rank: sorted(paths, key=key); the sort is stable
rank(dir, paths) ==
    LET n == Len(paths)
        perm == CHOOSE f \in [1..n -> 1..n] :
                   /\ \A i, j \in 1..n : i # j => f[i] # f[j]
                   /\ \A i, j \in 1..n : i < j =>
                        \/ LexLess(RankKey(dir, paths[f[i]]), RankKey(dir, paths[f[j]]))
                        \/ /\ RankKey(dir, paths[f[i]]) = RankKey(dir, paths[f[j]])
                           /\ f[i] < f[j]
    IN [i \in 1..n |-> paths[perm[i]]]

\* A request as api_provider_analysis receives it
NewRequest ==
    [pc |-> "received", generated_path |-> NoPath, candidates |-> <<>>,
     ranked |-> <<>>, rank2_path |-> NoPath,
     sent |-> [status |-> 0, name |-> NoPath, writer |-> 0]]

Respond(r, status, name, writer) ==
    requests' = [requests EXCEPT ![r].pc = "done",
                    ![r].sent = [status |-> status, name |-> name, writer |-> writer]]

\* save_payload_files: the five uploads go to a directory of the request's
\* own (uuid4); a missing upload is a ValueError, answered with 400.
SavePayload(r) ==
    /\ requests[r].pc = "received"
    /\ \E complete \in BOOLEAN :
         IF complete THEN requests' = [requests EXCEPT ![r].pc = "saved"]
         ELSE Respond(r, 400, NoPath, 0)
    /\ UNCHANGED <<schedvars, c2vars, output_dir>>

\* run_provider_analysis, first half: challange_2 runs on the request's
\* files and saves its workbook as output_dir/Final_Schedule_Output.xlsx.
\* An exception of challange_2 is answered with 500.
Generate(r) ==
    /\ requests[r].pc = "saved"
    /\ \E raises \in BOOLEAN :
         IF raises
         THEN Respond(r, 500, NoPath, 0) /\ UNCHANGED output_dir
         ELSE /\ output_dir' =
                    [name \in DOMAIN output_dir \cup {FinalScheduleName} |->
                        IF name = FinalScheduleName THEN FinalWorkbook(r)
                        ELSE output_dir[name]]
              /\ requests' = [requests EXCEPT ![r].pc = "generated",
                                 ![r].generated_path = FinalScheduleName]
    /\ UNCHANGED <<schedvars, c2vars>>

\* run_provider_analysis, second half: discover, rank, pick rank 2.
Analyse(r) ==
    /\ requests[r].pc = "generated"
    /\ LET found == find_schedule_files(output_dir)
           candidates == IF found = <<>> /\ requests[r].generated_path \in DOMAIN output_dir
                         THEN <<requests[r].generated_path>> ELSE found
           ranked_paths == IF candidates # <<>> THEN rank(output_dir, candidates) ELSE <<>>
           rank2 == IF Len(ranked_paths) >= 2 THEN ranked_paths[2]
                    ELSE IF ranked_paths # <<>> THEN ranked_paths[1] ELSE NoPath
       IN requests' = [requests EXCEPT ![r].pc = "ranked",
                          ![r].candidates = candidates,
                          ![r].ranked = ranked_paths,
                          ![r].rank2_path = rank2]
    /\ UNCHANGED <<schedvars, c2vars, output_dir>>

\* api_provider_analysis, after run_provider_analysis: send_file reads the
\* file that is under rank2_path now.
SendFile(r) ==
    /\ requests[r].pc = "ranked"
    /\ LET path == requests[r].rank2_path
       IN IF path = NoPath \/ path \notin DOMAIN output_dir
          THEN Respond(r, 500, NoPath, 0)
          ELSE Respond(r, 200, path, output_dir[path].writer)
    /\ UNCHANGED <<schedvars, c2vars, output_dir>>

\* The scheduler variables when only the Flask application runs
SchedulerIdle ==
    /\ coverage = EmptyMap /\ availability = EmptyMap /\ contracts = EmptyMap
    /\ credentialing = EmptyMap /\ volumes = EmptyMap /\ weekend_days = {}
    /\ solver_status = "UNKNOWN" /\ slots = <<>>
    /\ pc = "phase1"
    /\ gi = 1 /\ mi = 1 /\ bi = 1
    /\ sol_p1 = EmptyMap /\ shifts_p1 = EmptyMap /\ vol_p1 = EmptyMap
    /\ uncovered = <<>>
    /\ sol_min = EmptyMap /\ shifts_min = EmptyMap /\ vol_min = EmptyMap
    /\ sol_bal = EmptyMap /\ shifts_bal = EmptyMap /\ vol_bal = EmptyMap
    /\ sol_cons = EmptyMap /\ shifts_cons = EmptyMap /\ vol_cons = EmptyMap
    /\ score_min = EmptyMap /\ score_bal = EmptyMap /\ score_cons = EmptyMap
    /\ ranked = <<>>

\* The server is up; "output" holds what a scheduler run left there, if any.
InitFlask ==
    /\ SchedulerIdle /\ Challange2Idle
    /\ \E left \in ScheduleFilesLeft :
          output_dir = [name \in DOMAIN left |-> ScoreWorkbook(left[name])]
    /\ requests = [r \in Requests |-> NewRequest]

\* app.run(debug=True): the development server handles each request in a
\* thread of its own, so the handlers' steps interleave.
NextFlask ==
    \/ \E r \in Requests : SavePayload(r)
    \/ \E r \in Requests : Generate(r)
    \/ \E r \in Requests : Analyse(r)
    \/ \E r \in Requests : SendFile(r)

SpecFlask == InitFlask /\ [][NextFlask]_vars

\* The satisfaction score of a candidate; a file without one counts as worst.
B1Of(p) == IF read_b1_score(output_dir, p).none THEN 1000000000
           ELSE read_b1_score(output_dir, p).value

-----------------------------------------------------------------------------
(* flask_app/challange_2.py: challange_2 *)

TOTAL_DAYS == 31
WEEKEND_DAYS == {4, 5, 11, 12, 18, 19, 25, 26}

MAX_CONSECUTIVE_DAYS == [MD1 |-> 4, MD2 |-> 7, PM |-> 3, MD1_PM_COMBINED |-> 4]

\* site_coverage.keys() and provider_contracts.keys(): the order of the rows
\* of the input files
SiteOrder == <<"NHMC", "NMMC">>
ContractOrder == <<"p1", "p2">>

\* for day in range(1, 32): for shift in ['MD1', 'MD2', 'PM']
DayShiftPairs ==
    [i \in 1..(TOTAL_DAYS * 3) |-> <<((i - 1) \div 3) + 1, shifts[((i - 1) % 3) + 1]>>]

\* facilities_needing of (day, shift), in site_coverage order
FacilitiesNeeding(day, shift) ==
    SelectSeq(SiteOrder, LAMBDA f : f \in DOMAIN site_coverage
                                    /\ day \in site_coverage[f][shift])

\* sorted(daily_shift_needs.items()): the (day, shift) pairs some facility
\* needs, by day and then by shift name
SortedDayShiftNeeds ==
    SelectSeq(DayShiftPairs, LAMBDA k : FacilitiesNeeding(k[1], k[2]) # <<>>)

\* slots: for facility, for day, for shift, when the facility needs it
SlotKeys ==
    LET all == [i \in 1..(Len(SiteOrder) * TOTAL_DAYS * 3) |->
                   <<SiteOrder[((i - 1) \div (TOTAL_DAYS * 3)) + 1],
                     DayShiftPairs[((i - 1) % (TOTAL_DAYS * 3)) + 1][1],
                     DayShiftPairs[((i - 1) % (TOTAL_DAYS * 3)) + 1][2]>>]
    IN SelectSeq(all, LAMBDA k : k[1] \in DOMAIN site_coverage
                                 /\ k[2] \in site_coverage[k[1]][k[3]])

\* providers_to_schedule: providers with a contract, availability and
\* credentialing data, in contract order
ProvidersInOrder ==
    SelectSeq(ContractOrder, LAMBDA p : p \in DOMAIN providers_to_schedule)

\* provider_availability[provider].get(day, set())
AvailableShifts(provider, day) ==
    IF day \in DOMAIN provider_availability[provider]
    THEN provider_availability[provider][day] ELSE {}

\* sorted(list of days): ascending, duplicates kept
RECURSIVE SortedFrom(_, _)
SortedFrom(ds, d) ==
    IF d > TOTAL_DAYS THEN <<>>
    ELSE [i \in 1..Cardinality({j \in 1..Len(ds) : ds[j] = d}) |-> d]
         \o SortedFrom(ds, d + 1)

\* the loop of check_consecutive_days and check_md1_pm_combined over the
\* sorted list, from index i with the counters current and max
RECURSIVE ScanConsecutive(_, _, _, _)
ScanConsecutive(ds, i, current_consecutive, max_consecutive) ==
    IF i > Len(ds) THEN max_consecutive
    ELSE IF ds[i] = ds[i - 1] + 1
         THEN ScanConsecutive(ds, i + 1, current_consecutive + 1,
                              Max2(max_consecutive, current_consecutive + 1))
         ELSE ScanConsecutive(ds, i + 1, 1, max_consecutive)

\* Line 580 is "[day for f, d, s in assigned if s == proposed_assignment]":
\* the comprehension yields the proposed day once per assigned shift of the
\* type, not the assigned days d.
check_consecutive_days(provider, shift_type, day, proposed_assignment) ==
    LET assigned == providers_to_schedule[provider].assigned_shifts
        same == SelectSeq(assigned, LAMBDA a : a[3] = proposed_assignment)
        consecutive_days == SortedFrom([i \in 1..Len(same) |-> day] \o <<day>>, 1)
        max_limit == IF shift_type \in DOMAIN MAX_CONSECUTIVE_DAYS
                     THEN MAX_CONSECUTIVE_DAYS[shift_type] ELSE 4
    IN ScanConsecutive(consecutive_days, 2, 1, 1) <= max_limit

check_md1_pm_combined(provider, shift_type, day) ==
    IF shift_type \notin {"MD1", "PM"} THEN TRUE
    ELSE LET assigned == providers_to_schedule[provider].assigned_shifts
             both == SelectSeq(assigned, LAMBDA a : a[3] \in {"MD1", "PM"})
             combined_days == SortedFrom([i \in 1..Len(both) |-> both[i][2]] \o <<day>>, 1)
         IN ScanConsecutive(combined_days, 2, 1, 1)
               <= MAX_CONSECUTIVE_DAYS["MD1_PM_COMBINED"]

\* any(f_d_s[1] == day for f_d_s in assigned_shifts)
AlreadyOnDay(provider, day) ==
    \E i \in 1..Len(providers_to_schedule[provider].assigned_shifts) :
        providers_to_schedule[provider].assigned_shifts[i][2] = day

\* list.sort(key=...): stable, the keys are triples
SortedByKey(seq, key) ==
    LET n == Len(seq)
        perm == CHOOSE f \in [1..n -> 1..n] :
                   /\ \A i, j \in 1..n : i # j => f[i] # f[j]
                   /\ \A i, j \in 1..n : i < j =>
                        \/ LexLess(key[seq[f[i]]], key[seq[f[j]]])
                        \/ key[seq[f[i]]] = key[seq[f[j]]] /\ f[i] < f[j]
    IN [i \in 1..n |-> seq[perm[i]]]

\* Phase 1: facilities_can_cover of a provider for the needed facilities
FacilitiesCanCover(provider, facilities_needed) ==
    SelectSeq(facilities_needed,
              LAMBDA f : f \in providers_to_schedule[provider].credentialed_sites)

\* Phase 1, lines 782-817: the filter that builds available_providers
Phase1Available(provider, day, shift, facilities_needed) ==
    LET data == providers_to_schedule[provider]
    IN /\ shift \in AvailableShifts(provider, day)
       /\ ~AlreadyOnDay(provider, day)
       /\ ~(data.assigned_total >= data.total_shifts)
       /\ ~(day \in WEEKEND_DAYS /\ data.assigned_weekends >= data.weekend_shifts)
       /\ ~(shift = "PM" /\ data.assigned_pm >= data.pm_shifts)
       /\ check_consecutive_days(provider, shift, day, shift)
       /\ check_md1_pm_combined(provider, shift, day)
       /\ FacilitiesCanCover(provider, facilities_needed) # <<>>

\* (0 if FT else 1, -(total_shifts - assigned_total)), a third component 0
Phase1SortKey(provider) ==
    <<IF providers_to_schedule[provider].contract_type = "FT" THEN 0 ELSE 1,
      0 - (providers_to_schedule[provider].total_shifts
             - providers_to_schedule[provider].assigned_total),
      0>>

\* Phase 1, lines 831-845: providers are taken one at a time until all the
\* needed facilities are covered; the result is assigned_to_day_shift as the
\* list of its (provider, facilities) items in insertion order.
RECURSIVE AssignLoop(_, _, _, _, _)
AssignLoop(available_providers, i, covered_facilities, assigned_to_day_shift, facilities_needed) ==
    IF i > Len(available_providers) THEN assigned_to_day_shift
    ELSE LET provider == available_providers[i]
             facilities_to_assign ==
                 SelectSeq(FacilitiesCanCover(provider, facilities_needed),
                           LAMBDA f : f \notin covered_facilities)
         IN IF facilities_to_assign = <<>>
            THEN AssignLoop(available_providers, i + 1, covered_facilities,
                            assigned_to_day_shift, facilities_needed)
            ELSE IF Cardinality(covered_facilities \cup Range(facilities_to_assign))
                      >= Len(facilities_needed)
                 THEN Append(assigned_to_day_shift, <<provider, facilities_to_assign>>)
                 ELSE AssignLoop(available_providers, i + 1,
                                 covered_facilities \cup Range(facilities_to_assign),
                                 Append(assigned_to_day_shift,
                                        <<provider, facilities_to_assign>>),
                                 facilities_needed)

\* The provider record after one more shift on (day, shift) covering the
\* given facilities
RecordShift(data, facilities_covered, day, shift) ==
    [data EXCEPT
        !.assigned_shifts = @ \o [i \in 1..Len(facilities_covered) |->
                                     <<facilities_covered[i], day, shift>>],
        !.assigned_total = @ + 1,
        !.assigned_weekends = IF day \in WEEKEND_DAYS THEN @ + 1 ELSE @,
        !.assigned_pm = IF shift = "PM" THEN @ + 1 ELSE @]

\* line 872: slot['providers'] = list(assigned_to_day_shift.keys())
SlotProviders(assigned_to_day_shift, facility) ==
    [i \in 1..Len(assigned_to_day_shift) |-> assigned_to_day_shift[i][1]]

\* Phase 1: one iteration of "for (day, shift), day_shift_info in sorted(...)"
Phase1Allocate ==
    /\ c2_pc = "phase1"
    /\ key_i <= Len(SortedDayShiftNeeds)
    /\ LET day == SortedDayShiftNeeds[key_i][1]
           shift == SortedDayShiftNeeds[key_i][2]
           facilities_needed == FacilitiesNeeding(day, shift)
           found == SelectSeq(ProvidersInOrder,
                        LAMBDA p : Phase1Available(p, day, shift, facilities_needed))
           available_providers ==
               SortedByKey(found, [p \in Range(found) |-> Phase1SortKey(p)])
           assigned_to_day_shift ==
               AssignLoop(available_providers, 1, {}, <<>>, facilities_needed)
           covered_facilities ==
               UNION {Range(assigned_to_day_shift[i][2]) :
                         i \in 1..Len(assigned_to_day_shift)}
           covering(p) == CHOOSE i \in 1..Len(assigned_to_day_shift) :
                              assigned_to_day_shift[i][1] = p
       IN /\ providers_to_schedule' =
                [p \in DOMAIN providers_to_schedule |->
                    IF \E i \in 1..Len(assigned_to_day_shift) :
                           assigned_to_day_shift[i][1] = p
                    THEN RecordShift(providers_to_schedule[p],
                                     assigned_to_day_shift[covering(p)][2], day, shift)
                    ELSE providers_to_schedule[p]]
          /\ facility_slots' =
                [k \in DOMAIN facility_slots |->
                    IF k[2] = day /\ k[3] = shift /\ k[1] \in covered_facilities
                    THEN [providers |-> SlotProviders(assigned_to_day_shift, k[1]),
                          status |-> "ASSIGNED"]
                    ELSE facility_slots[k]]
    /\ key_i' = key_i + 1
    /\ UNCHANGED <<schedvars, webvars, c2inputs, c2_pc, unfilled_pm, pm_i>>

\* sum(total_shifts) over the providers of the given contract types is 0
NoTarget(types) ==
    \A p \in DOMAIN providers_to_schedule :
        providers_to_schedule[p].contract_type \in types =>
            providers_to_schedule[p].total_shifts = 0

\* Phase 1 statistics and Phase 2, step 1: the percentages divide by
\* len(slots) and by the sums of the contracted shifts of all, of the FT and
\* of the IC providers (ZeroDivisionError); then the unfilled PM slots are
\* listed, in slot order.
IdentifyUnfilled ==
    /\ c2_pc = "phase1"
    /\ key_i > Len(SortedDayShiftNeeds)
    /\ IF \/ Len(SlotKeys) = 0
          \/ NoTarget({"FT", "IC"}) \/ NoTarget({"FT"}) \/ NoTarget({"IC"})
       THEN c2_pc' = "error" /\ UNCHANGED unfilled_pm
       ELSE /\ c2_pc' = "phase2"
            /\ unfilled_pm' =
                  SelectSeq(SlotKeys, LAMBDA k : /\ facility_slots[k].status = "UNASSIGNED"
                                                 /\ k[3] = "PM")
    /\ pm_i' = 1
    /\ UNCHANGED <<schedvars, webvars, c2inputs, providers_to_schedule,
                   facility_slots, key_i>>

\* PM cross-coverage, lines 1050-1071: the filter that builds candidates
CrossCandidate(provider, facility, day) ==
    LET data == providers_to_schedule[provider]
    IN /\ "PM" \in AvailableShifts(provider, day)
       /\ facility \in data.credentialed_sites
       /\ ~(data.assigned_total >= data.total_shifts)
       /\ ~(data.assigned_pm >= data.pm_shifts)
       /\ ~AlreadyOnDay(provider, day)

\* (not prefers_pm, 0 if FT else 1, -(total_shifts - assigned_total))
CrossSortKey(provider) ==
    <<IF "PM" \in providers_to_schedule[provider].shift_preferences THEN 0 ELSE 1,
      IF providers_to_schedule[provider].contract_type = "FT" THEN 0 ELSE 1,
      0 - (providers_to_schedule[provider].total_shifts
             - providers_to_schedule[provider].assigned_total)>>

\* Phase 2, step 3: one iteration of "for pm_slot in unfilled_pm[:100]"
PMCrossCoverage ==
    /\ c2_pc = "phase2"
    /\ pm_i <= Len(unfilled_pm) /\ pm_i <= 100
    /\ LET k == unfilled_pm[pm_i]
           found == SelectSeq(ProvidersInOrder, LAMBDA p : CrossCandidate(p, k[1], k[2]))
           candidates == SortedByKey(found, [p \in Range(found) |-> CrossSortKey(p)])
       IN IF candidates # <<>>
          THEN /\ providers_to_schedule' =
                     [providers_to_schedule EXCEPT ![candidates[1]] =
                         RecordShift(@, <<k[1]>>, k[2], "PM")]
               /\ facility_slots' =
                     [facility_slots EXCEPT ![k] =
                         [providers |-> Append(@.providers, candidates[1]),
                          status |-> "ASSIGNED"]]
          ELSE UNCHANGED <<providers_to_schedule, facility_slots>>
    /\ pm_i' = pm_i + 1
    /\ UNCHANGED <<schedvars, webvars, c2inputs, c2_pc, key_i, unfilled_pm>>

\* Phase 3: the workbook is saved as output_dir/Final_Schedule_Output.xlsx
\* (writer 0: the call is not made for a request).
SaveWorkbook ==
    /\ c2_pc = "phase2"
    /\ ~(pm_i <= Len(unfilled_pm) /\ pm_i <= 100)
    /\ c2_pc' = "done"
    /\ output_dir' = [name \in DOMAIN output_dir \cup {FinalScheduleName} |->
                         IF name = FinalScheduleName THEN FinalWorkbook(0)
                         ELSE output_dir[name]]
    /\ UNCHANGED <<schedvars, requests, c2inputs, providers_to_schedule,
                   facility_slots, key_i, unfilled_pm, pm_i>>

\* The longest run of days that starts on the first weekday after the first
\* weekend of the month
MaxRunDays == 5
FirstRunDay == 6
RunWindow(n) == FirstRunDay..(FirstRunDay + n - 1)

\* What a facility may need: one shift type on every day of the window (MD2
\* for three days more), MD1 then PM, or nothing
SiteCoverageChoices ==
    {[MD1 |-> RunWindow(MaxRunDays), MD2 |-> {}, PM |-> {}],
     [MD1 |-> {}, MD2 |-> {}, PM |-> RunWindow(MaxRunDays)],
     [MD1 |-> {}, MD2 |-> RunWindow(MaxRunDays + 3), PM |-> {}],
     [MD1 |-> RunWindow(2), MD2 |-> {}, PM |-> RunWindow(MaxRunDays) \ RunWindow(2)],
     [MD1 |-> {}, MD2 |-> {}, PM |-> {}]}

C2Contract(type, total, weekend, pm, prefs) ==
    [contract_type |-> type, total_shifts |-> total, weekend_shifts |-> weekend,
     pm_shifts |-> pm, shift_preferences |-> prefs]

ProviderContractChoices ==
    {[p1 |-> C2Contract("FT", 20, 4, 10, {}), p2 |-> C2Contract("IC", 20, 4, 10, {"PM"})],
     [p1 |-> C2Contract("IC", 3, 4, 2, {}), p2 |-> C2Contract("IC", 20, 4, 10, {"PM"})],
     [p1 |-> C2Contract("FT", 20, 4, 10, {}), p2 |-> C2Contract("FT", 20, 0, 10, {})],
     [p1 |-> C2Contract("IC", 3, 4, 2, {}), p2 |-> C2Contract("FT", 20, 0, 10, {})]}

EveryShiftEveryDay == [d \in 1..TOTAL_DAYS |-> {"MD1", "MD2", "PM"}]
NightsOnly == [d \in 1..TOTAL_DAYS |-> {"PM"}]

\* challange_2 after the data structure setup and the reset of Phase 1
InitChallange2 ==
    /\ SchedulerIdle /\ FlaskIdle
    /\ \E c1 \in SiteCoverageChoices, c2 \in SiteCoverageChoices :
          site_coverage = [f \in {"NHMC", "NMMC"} |-> IF f = "NHMC" THEN c1 ELSE c2]
    /\ provider_contracts \in ProviderContractChoices
    /\ \E a2 \in {EveryShiftEveryDay, NightsOnly} :
          provider_availability =
              [p \in {"p1", "p2"} |-> IF p = "p1" THEN EveryShiftEveryDay ELSE a2]
    /\ \E s1 \in {{"NHMC"}, {"NHMC", "NMMC"}}, s2 \in {{"NMMC"}, {"NHMC", "NMMC"}} :
          provider_credentials = [p \in {"p1", "p2"} |-> IF p = "p1" THEN s1 ELSE s2]
    /\ providers_to_schedule =
          [p \in {q \in DOMAIN provider_contracts :
                     q \in DOMAIN provider_availability /\ q \in DOMAIN provider_credentials} |->
              [contract_type |-> provider_contracts[p].contract_type,
               total_shifts |-> provider_contracts[p].total_shifts,
               weekend_shifts |-> provider_contracts[p].weekend_shifts,
               pm_shifts |-> provider_contracts[p].pm_shifts,
               shift_preferences |-> provider_contracts[p].shift_preferences,
               credentialed_sites |-> provider_credentials[p],
               assigned_shifts |-> <<>>,
               assigned_total |-> 0, assigned_weekends |-> 0, assigned_pm |-> 0]]
    /\ facility_slots = [k \in Range(SlotKeys) |-> [providers |-> <<>>, status |-> "UNASSIGNED"]]
    /\ c2_pc = "phase1" /\ key_i = 1 /\ unfilled_pm = <<>> /\ pm_i = 1

NextChallange2 ==
    \/ Phase1Allocate
    \/ IdentifyUnfilled
    \/ PMCrossCoverage
    \/ SaveWorkbook

SpecChallange2 == InitChallange2 /\ [][NextChallange2]_vars

\* The days on which a provider works shift type s, at any facility
DaysWorked(p, S) ==
    {providers_to_schedule[p].assigned_shifts[i][2] :
        i \in {j \in 1..Len(providers_to_schedule[p].assigned_shifts) :
                 providers_to_schedule[p].assigned_shifts[j][3] \in S}}

\* The length of the longest run of consecutive calendar days in D
LongestRun(D) ==
    IF D = {} THEN 0
    ELSE CHOOSE n \in 1..TOTAL_DAYS :
            /\ \E d \in D : d..(d + n - 1) \subseteq D
            /\ \A d \in D : ~(d..(d + n) \subseteq D)

=============================================================================
